---------------------------- MODULE Spec2Model ----------------------------
(***************************************************************************)
(* A model of toml-lalrpop: the escape / unescape transcoders, the merge   *)
(* of document values, the document builder that folds parsed lines into a *)
(* tree, and the independent renderer.                                     *)
(*                                                                         *)
(* Text is a sequence of Unicode code points.  A document value is a       *)
(* record tagged by its shape.  A panic of the Rust code is a value of the *)
(* result record's "panic" field.                                          *)
(***************************************************************************)
EXTENDS Integers, Sequences, FiniteSets, TLC

VARIABLES
    pc,          \* position of the running computation
    input,       \* escape: the text handed to escape()
    mode,        \* escape / unescape: Mode
    chars,       \* escape: input.chars(), the characters not yet taken
    frontiter,   \* escape: the Escape iterator flat_map is draining
    escaped,     \* escape: the characters collected from escape() so far
    unescape,    \* unescape: the Unescape struct
    collected,   \* unescape: the characters collected so far
    error,       \* unescape: the first Err yielded, or None
    a_val,       \* merge: the value A
    b_val,       \* merge: the value B
    c_val,       \* merge: the value C
    ab,          \* merge: A after A.merge(B), or the panic
    ab_c,        \* merge: that value after .merge(C), or the panic
    bc,          \* merge: B after B.merge(C), or the panic
    a_bc,        \* merge: A after A.merge(that value), or the panic
    lines,       \* builder: the lines taken from Lines so far
    state,       \* builder: State
    comments,    \* builder: the Comments awaiting the next data line
    root,        \* builder: the Table returned, or the panic
    document,    \* renderer: the Table rendered
    is_inline,   \* renderer: the is_inline predicate
    alternate,   \* renderer: the formatter's alternate flag, "{:#}"
    output,      \* renderer: the lines written
    raw,         \* quoting: the raw text
    parsed,      \* quoting: Flags::parse of the raw text
    quoted,      \* quoting: Quoted::new of the raw text
    shown,       \* quoting: the Display of that Quoted
    dotted,      \* quoting: the Key of the raw text and of it read backwards
    dotted_shown,\* quoting: the Display of that Key
    lhs,         \* segments: the one Segment
    rhs,         \* segments: the other Segment
    eq_result,   \* segments: lhs == rhs
    hash_result, \* segments: whether the two hash alike
    esc_it,      \* iterators: the Escape, None once it is moved
    uni_it,      \* iterators: the EscapeUnicode, None once it is moved
    call         \* iterators: the last call, the iterator it was made on and what it gave

escVars == <<input, mode, chars, frontiter, escaped, unescape, collected, error>>

mergeVars == <<a_val, b_val, c_val, ab, ab_c, bc, a_bc>>

buildVars == <<lines, state, comments, root>>

renderVars == <<document, is_inline, alternate, output>>

quoteVars == <<raw, parsed, quoted, shown, dotted, dotted_shown>>

segmentVars == <<lhs, rhs, eq_result, hash_result>>

iterVars == <<esc_it, uni_it, call>>

vars == <<pc, escVars, mergeVars, buildVars, renderVars, quoteVars, segmentVars, iterVars>>

None == [tag |-> "None"]
Some(v) == [tag |-> "Some", v |-> v]

-----------------------------------------------------------------------------
(* Bounds of the model. *)

\* longest text handed to escape()
MaxLen == 3

\* most items (table entries and array elements, at any depth) that the
\* values handed to merge hold together
MaxNodes == 4

\* most lines fed to the document builder
MaxLines == 4

\* most items of a table handed to the independent renderer
MaxRenderNodes == 3

\* most pieces (characters, escapes, line continuations) of a text handed
\* to unescape()
MaxPieces == 2

\* most characters of a raw text handed to Flags::parse and Quoted::new
MaxRaw == 3

\* most items in the three tables merged in both groupings together
MaxTableNodes == 4

\* the largest argument of a call of nth
MaxNth == 6

\* most characters of a text whose rendering is read for its delimiters
MaxDelimited == 5

\* most items of a value rendered inline
MaxInlineNodes == 3

\* most characters of the text of a Segment that is compared
MaxSegment == 3

-----------------------------------------------------------------------------
(* The variables of a component that is not running. *)

EscIdle ==
    /\ input = <<>>
    /\ mode = "SingleLine"
    /\ chars = <<>>
    /\ frontiter = None
    /\ escaped = <<>>
    /\ unescape = None
    /\ collected = <<>>
    /\ error = None

MergeIdle ==
    /\ a_val = None
    /\ b_val = None
    /\ c_val = None
    /\ ab = None
    /\ ab_c = None
    /\ bc = None
    /\ a_bc = None

BuildIdle ==
    /\ lines = <<>>
    /\ state = None
    /\ comments = <<>>
    /\ root = None

RenderIdle ==
    /\ document = None
    /\ is_inline = None
    /\ alternate = FALSE
    /\ output = <<>>

QuoteIdle ==
    /\ raw = None
    /\ parsed = None
    /\ quoted = None
    /\ shown = None
    /\ dotted = None
    /\ dotted_shown = None

IterIdle ==
    /\ esc_it = None
    /\ uni_it = None
    /\ call = None

SegmentIdle ==
    /\ lhs = None
    /\ rhs = None
    /\ eq_result = None
    /\ hash_result = None

-----------------------------------------------------------------------------
(* Characters: code points named in src/escape. *)

HT == 9
LF == 10
FF == 12
CR == 13
SPACE == 32
QUOTATION_MARK == 34
APOSTROPHE == 39
BACKSLASH == 92
DEL == 127
LOWER_N == 110
LOWER_R == 114
LOWER_T == 116
LOWER_U == 117
RIGHT_CURLY_BRACKET == 125
UPPER_U == 85
MAX_SCALAR == 1114111
SURROGATE_FIRST == 55296
SURROGATE_LAST == 57343

\* char::is_ascii_control: U+0000..U+001F and U+007F
is_ascii_control(c) == (0 <= c /\ c <= 31) \/ c = DEL

\* a space or a line feed only
is_space_or_line_feed(b) == b \in {SPACE, LF}

\* u8::is_ascii_whitespace: space, HT, LF, FF, CR
is_ascii_whitespace(b) == b \in {SPACE, HT, LF, FF, CR}

\* char::len_utf8
len_utf8(c) ==
    IF c < 128 THEN 1 ELSE IF c < 2048 THEN 2 ELSE IF c < 65536 THEN 3 ELSE 4

\* the uppercase hexadecimal digit of d
from_digit_uppercase(d) == IF d < 10 THEN 48 + d ELSE 65 + (d - 10)

\* char::from_digit(d, 16): the lowercase hexadecimal digit of d
from_digit(d) == IF d < 10 THEN 48 + d ELSE 97 + (d - 10)

\* the value of a hexadecimal digit that is no uppercase letter, or -1
to_digit_lowercase(c) ==
    IF 48 <= c /\ c <= 57 THEN c - 48
    ELSE IF 97 <= c /\ c <= 102 THEN c - 97 + 10
    ELSE -1

\* char::to_digit(16): the value of a hexadecimal digit of either case, or -1
to_digit(c) ==
    IF 48 <= c /\ c <= 57 THEN c - 48
    ELSE IF 97 <= c /\ c <= 102 THEN c - 97 + 10
    ELSE IF 65 <= c /\ c <= 70 THEN c - 65 + 10
    ELSE -1

RECURSIVE Pow2(_)
Pow2(n) == IF n = 0 THEN 1 ELSE 2 * Pow2(n - 1)

\* the index of the most significant set bit of a u32 (31 - leading_zeros)
RECURSIVE BitIndex(_)
BitIndex(x) == IF x < 2 THEN 0 ELSE 1 + BitIndex(x \div 2)

-----------------------------------------------------------------------------
(* escape.rs: the per-character Escape iterator and escape(). *)

\* EscapeUnicode::new
EscapeUnicodeNew(c) ==
    LET or1 == IF c % 2 = 0 THEN c + 1 ELSE c
        bit_index == BitIndex(or1)
        hex_digit_index == bit_index \div 4
    IN  [c |-> c, state |-> "Backslash",
         index |-> IF hex_digit_index < 4 THEN 3 ELSE 7]

\* EscapeUnicode::next: <<the iterator after the call, the item or None>>
EscapeUnicodeNext(it) ==
    CASE it.state = "Backslash" ->
            <<[it EXCEPT !.state = "Type"], Some(BACKSLASH)>>
      [] it.state = "Type" ->
            <<[it EXCEPT !.state = "Value"],
              Some(IF it.index < 4 THEN LOWER_U ELSE UPPER_U)>>
      [] it.state = "Value" ->
            LET hex_digit == (it.c \div Pow2(it.index * 4)) % 16
                c == Some(from_digit(hex_digit))
            IN  IF it.index = 0
                THEN <<[it EXCEPT !.state = "Done"], c>>
                ELSE <<[it EXCEPT !.index = it.index - 1], c>>
      [] OTHER -> <<it, None>>

\* Iterator::nth as the trait provides it, for EscapeUnicode: n calls of
\* next and the item of one more, <<the iterator after the call, the item>>
RECURSIVE EscapeUnicodeNth(_, _)
EscapeUnicodeNth(it, n) ==
    LET r == EscapeUnicodeNext(it)
    IN  IF n = 0 \/ r[2].tag = "None" THEN r ELSE EscapeUnicodeNth(r[1], n - 1)

\* EscapeUnicode::last
EscapeUnicodeLast(it) ==
    IF it.state = "Done" THEN None ELSE Some(RIGHT_CURLY_BRACKET)

\* EscapeUnicode::len
EscapeUnicodeLen(it) ==
    it.index + (CASE it.state = "Done" -> 0
                  [] it.state = "Value" -> 1
                  [] it.state = "Type" -> 2
                  [] it.state = "Backslash" -> 3)

\* Escape::new with the backslash arm left out: a backslash passes through
EscapeNewPlainBackslash(c, m) ==
    CASE c = HT -> [state |-> "Char", c |-> c]
      [] c = LF ->
            IF m = "SingleLine" THEN [state |-> "Backslash", c |-> LOWER_N]
            ELSE [state |-> "Char", c |-> c]
      [] c = CR ->
            IF m = "SingleLine" THEN [state |-> "Backslash", c |-> LOWER_R]
            ELSE [state |-> "Char", c |-> c]
      [] c \notin {HT, LF, CR} /\ is_ascii_control(c) ->
            [state |-> "Unicode", iter |-> EscapeUnicodeNew(c)]
      [] c = QUOTATION_MARK /\ m = "SingleLine" -> [state |-> "Backslash", c |-> c]
      [] OTHER -> [state |-> "Char", c |-> c]

\* Escape::new
EscapeNew(c, m) ==
    CASE c = HT -> [state |-> "Char", c |-> c]
      [] c = LF ->
            IF m = "SingleLine" THEN [state |-> "Backslash", c |-> LOWER_N]
            ELSE [state |-> "Char", c |-> c]
      [] c = CR ->
            IF m = "SingleLine" THEN [state |-> "Backslash", c |-> LOWER_R]
            ELSE [state |-> "Char", c |-> c]
      [] c \notin {HT, LF, CR} /\ is_ascii_control(c) ->
            [state |-> "Unicode", iter |-> EscapeUnicodeNew(c)]
      [] c = QUOTATION_MARK /\ m = "SingleLine" -> [state |-> "Backslash", c |-> c]
      [] c = BACKSLASH -> [state |-> "Backslash", c |-> c]
      [] OTHER -> [state |-> "Char", c |-> c]

\* Escape::next: <<the iterator after the call, the item or None>>
EscapeNext(it) ==
    CASE it.state = "Backslash" -> <<[state |-> "Char", c |-> it.c], Some(BACKSLASH)>>
      [] it.state = "Char" -> <<[state |-> "Done"], Some(it.c)>>
      [] it.state = "Done" -> <<it, None>>
      [] it.state = "Unicode" ->
            LET r == EscapeUnicodeNext(it.iter)
            IN  <<[state |-> "Unicode", iter |-> r[1]], r[2]>>

\* Escape::nth: <<the iterator after the call, the item or None>>
EscapeNth(it, n) ==
    CASE it.state = "Backslash" /\ n = 0 ->
            <<[state |-> "Char", c |-> it.c], Some(BACKSLASH)>>
      [] it.state = "Backslash" /\ n = 1 -> <<[state |-> "Done"], Some(it.c)>>
      [] it.state = "Backslash" /\ n > 1 -> <<[state |-> "Done"], None>>
      [] it.state = "Char" ->
            <<[state |-> "Done"], IF n = 0 THEN Some(it.c) ELSE None>>
      [] it.state = "Done" -> <<it, None>>
      [] it.state = "Unicode" ->
            LET r == EscapeUnicodeNth(it.iter, n)
            IN  <<[state |-> "Unicode", iter |-> r[1]], r[2]>>

\* Escape::last
EscapeLast(it) ==
    CASE it.state = "Unicode" -> EscapeUnicodeLast(it.iter)
      [] it.state = "Done" -> None
      [] OTHER -> Some(it.c)

\* Escape::len
EscapeLen(it) ==
    CASE it.state = "Done" -> 0
      [] it.state = "Char" -> 1
      [] it.state = "Backslash" -> 2
      [] it.state = "Unicode" -> EscapeUnicodeLen(it.iter)

\* One call of next() on input.chars().flat_map(|c| Escape::new(c, mode)):
\* drain the front iterator, and when it is exhausted start the next
\* character's.  <<chars, frontiter, item or None>>
RECURSIVE FlatMapNext(_, _, _)
FlatMapNext(cs, front, m) ==
    LET r == IF front = None THEN <<None, None>> ELSE EscapeNext(front)
    IN  IF r[2].tag = "Some" THEN <<cs, r[1], r[2]>>
        ELSE IF cs = <<>> THEN <<cs, None, None>>
        ELSE FlatMapNext(Tail(cs), EscapeNew(Head(cs), m), m)

-----------------------------------------------------------------------------
(* unescape.rs: the Unescape iterator.  char_indices is the remaining      *)
(* text with the byte offset of its first character (front_offset).        *)

Span(s, e) == [start |-> s, end |-> e]

CharIndices(str) == [str |-> str, front_offset |-> 0]

\* Unescape::new
UnescapeNew(str, m) ==
    [char_indices |-> CharIndices(str), mode |-> m, span |-> Span(0, 0)]

\* CharIndices::next, Some case: the iterator after the call
CharIndicesAdvance(ci) ==
    [str |-> Tail(ci.str), front_offset |-> ci.front_offset + len_utf8(Head(ci.str))]

Ok(u, span, c) == [self |-> u, item |-> [tag |-> "Ok", span |-> span, c |-> c]]
Err(u, kind, span) == [self |-> u, item |-> [tag |-> "Err", kind |-> kind, span |-> span]]

\* a u32 as its upper and its lower sixteen bits
U32(hi, lo) == [hi |-> hi, lo |-> lo]

\* value * 16 + digit, in u32
u32_mul16_add(value, digit) ==
    LET low == value.lo * 16 + digit
    IN  U32((value.hi * 16 + low \div 65536) % 65536, low % 65536)

\* value > n, for a u32 value and n < 2^31
u32_gt(value, n) ==
    \/ value.hi > n \div 65536
    \/ value.hi = n \div 65536 /\ value.lo > n % 65536

\* char::from_u32
from_u32(value) ==
    IF u32_gt(value, MAX_SCALAR) THEN None
    ELSE LET c == value.hi * 65536 + value.lo
         IN  IF SURROGATE_FIRST <= c /\ c <= SURROGATE_LAST THEN None ELSE Some(c)

\* Unescape::parse_unicode_escape: n digits are still to be read
RECURSIVE parse_unicode_escape(_, _, _)
parse_unicode_escape(u, n, value) ==
    IF n = 0
    THEN IF from_u32(value).tag = "Some"
         THEN Ok(u, u.span, from_u32(value).v)
         ELSE IF u32_gt(value, MAX_SCALAR)
              THEN Err(u, "OutOfRangeUnicodeEscape", u.span)
              ELSE Err(u, "SurrogateUnicodeEscape", u.span)
    ELSE IF u.char_indices.str = <<>>
         THEN Err(u, "IncompleteUnicodeEscape", u.span)
         ELSE LET i == u.char_indices.front_offset
                  c == Head(u.char_indices.str)
                  v == [u EXCEPT !.char_indices = CharIndicesAdvance(u.char_indices),
                                 !.span.end = i + 1]
                  digit == to_digit(c)
              IN  IF digit < 0
                  THEN Err(v, "InvalidCharInUnicodeEscape", v.span)
                  ELSE parse_unicode_escape(v, n - 1, u32_mul16_add(value, digit))

\* Unescape::parse_escape
parse_escape(u) ==
    IF u.char_indices.str = <<>>
    THEN Err(u, "LoneSlash", u.span)
    ELSE LET i == u.char_indices.front_offset
             c == Head(u.char_indices.str)
             v == [u EXCEPT !.char_indices = CharIndicesAdvance(u.char_indices),
                            !.span.end = i + 1]
         IN  CASE c = LOWER_T -> Ok(v, v.span, HT)
               [] c = LOWER_N -> Ok(v, v.span, LF)
               [] c = LOWER_R -> Ok(v, v.span, CR)
               [] c = QUOTATION_MARK -> Ok(v, v.span, QUOTATION_MARK)
               [] c = BACKSLASH -> Ok(v, v.span, BACKSLASH)
               [] c = LOWER_U -> parse_unicode_escape(v, 4, U32(0, 0))
               [] c = UPPER_U -> parse_unicode_escape(v, 8, U32(0, 0))
               [] OTHER -> Err(v, "InvalidEscape", v.span)

\* the text after its leading ASCII whitespace bytes
RECURSIVE DropAsciiWhitespace(_)
DropAsciiWhitespace(str) ==
    IF str # <<>> /\ is_ascii_whitespace(Head(str))
    THEN DropAsciiWhitespace(Tail(str))
    ELSE str

\* Unescape::skip_ascii_whitespace: the iterator restarts on the slice that
\* begins at the first non-whitespace byte
skip_ascii_whitespace(u) ==
    [u EXCEPT !.char_indices = CharIndices(DropAsciiWhitespace(u.char_indices.str))]

\* Unescape::next: [self |-> the iterator after the call, item |-> Ok, Err or None]
RECURSIVE UnescapeNext(_)
UnescapeNext(u) ==
    IF u.char_indices.str = <<>>
    THEN [self |-> u, item |-> None]
    ELSE LET i == u.char_indices.front_offset
             c == Head(u.char_indices.str)
             v == [u EXCEPT !.char_indices = CharIndicesAdvance(u.char_indices),
                            !.span = Span(i, i + 1)]
         IN  CASE c = HT -> Ok(v, v.span, c)
               [] c \in {LF, CR} /\ v.mode = "MultiLine" -> Ok(v, v.span, c)
               [] c \in {LF, CR} /\ v.mode # "MultiLine" -> Err(v, "EscapeOnlyChar", v.span)
               [] c \notin {HT, LF, CR} /\ is_ascii_control(c) ->
                      Err(v, "EscapeOnlyChar", v.span)
               [] c = QUOTATION_MARK /\ v.mode = "SingleLine" ->
                      Err(v, "EscapeOnlyChar", v.span)
               [] c = BACKSLASH ->
                      IF /\ v.mode = "MultiLine"
                         /\ v.char_indices.str # <<>>
                         /\ Head(v.char_indices.str) = LF
                      THEN UnescapeNext(skip_ascii_whitespace(v))
                      ELSE parse_escape(v)
               [] OTHER -> Ok(v, v.span, c)

-----------------------------------------------------------------------------
(* The round trip: escape(input, mode) is collected into a String, which   *)
(* unescape(_, mode) reads, its items collected into a Result<String>.     *)

\* the characters a text is drawn from: HT, LF, CR, two other controls, DEL,
\* the quotes, the backslash, letters that name escapes, a two-byte character
Alphabet == {HT, LF, CR, 0, 31, DEL, QUOTATION_MARK, APOSTROPHE, BACKSLASH,
             LOWER_N, LOWER_U, 233}

Modes == {"SingleLine", "MultiLine"}

Texts(n) == UNION {[1..k -> Alphabet] : k \in 0..n}

InitEscape ==
    /\ pc = "escape"
    /\ MergeIdle
    /\ BuildIdle
    /\ RenderIdle
    /\ QuoteIdle
    /\ SegmentIdle
    /\ IterIdle
    /\ input \in Texts(MaxLen)
    /\ mode \in Modes
    /\ chars = input
    /\ frontiter = None
    /\ escaped = <<>>
    /\ unescape = None
    /\ collected = <<>>
    /\ error = None

\* escape(input, mode).collect::<String>(): one next() of the iterator
EscapeCollect ==
    /\ pc = "escape"
    /\ LET r == FlatMapNext(chars, frontiter, mode)
       IN  /\ chars' = r[1]
           /\ frontiter' = r[2]
           /\ IF r[3].tag = "None"
              THEN /\ escaped' = escaped
                   /\ unescape' = UnescapeNew(escaped, mode)
                   /\ pc' = "unescape"
              ELSE /\ escaped' = Append(escaped, r[3].v)
                   /\ unescape' = unescape
                   /\ pc' = "escape"
    /\ UNCHANGED <<input, mode, collected, error>>
    /\ UNCHANGED <<mergeVars, buildVars, renderVars, quoteVars, segmentVars, iterVars>>

\* unescape(escaped, mode).collect::<Result<String>>(): one next(); the
\* collection stops at the first Err
UnescapeCollect ==
    /\ pc = "unescape"
    /\ LET r == UnescapeNext(unescape)
       IN  /\ unescape' = r.self
           /\ CASE r.item.tag = "None" ->
                     /\ pc' = "done"
                     /\ UNCHANGED <<collected, error>>
                [] r.item.tag = "Ok" ->
                     /\ pc' = "unescape"
                     /\ collected' = Append(collected, r.item.c)
                     /\ error' = error
                [] r.item.tag = "Err" ->
                     /\ pc' = "done"
                     /\ collected' = collected
                     /\ error' = [kind |-> r.item.kind, span |-> r.item.span]
    /\ UNCHANGED <<input, mode, chars, frontiter, escaped>>
    /\ UNCHANGED <<mergeVars, buildVars, renderVars, quoteVars, segmentVars, iterVars>>

NextEscape == EscapeCollect \/ UnescapeCollect

SpecEscape == InitEscape /\ [][NextEscape]_vars

-----------------------------------------------------------------------------
(* unescape(text, mode) on texts of its own: literal characters, escapes,  *)
(* unicode escapes and line continuations, one after the other.            *)

DIGIT_ZERO == 48
DIGIT_ONE == 49
DIGIT_SEVEN == 55
DIGIT_EIGHT == 56
UPPER_D == 68
UPPER_E == 69
UPPER_F == 70
LOWER_A == 97
LOWER_B == 98
LOWER_D == 100
LOWER_F == 102
LOWER_G == 103
E_ACUTE == 233

\* the characters that stand for themselves or are rejected
LiteralPieces ==
    {<<LOWER_A>>, <<HT>>, <<LF>>, <<CR>>, <<0>>, <<31>>, <<DEL>>, <<QUOTATION_MARK>>,
     <<SPACE>>, <<E_ACUTE>>}

\* a backslash and the character behind it, if any
EscapePieces ==
    {<<BACKSLASH>>, <<BACKSLASH, LOWER_T>>, <<BACKSLASH, LOWER_N>>,
     <<BACKSLASH, LOWER_R>>, <<BACKSLASH, QUOTATION_MARK>>, <<BACKSLASH, BACKSLASH>>,
     <<BACKSLASH, LOWER_B>>, <<BACKSLASH, LOWER_F>>, <<BACKSLASH, E_ACUTE>>,
     <<BACKSLASH, CR>>, <<BACKSLASH, SPACE>>}

\* \u and \U escapes: complete, cut short, with a character that is no
\* hexadecimal digit, of a surrogate, and beyond U+10FFFF
UnicodePieces ==
    {<<BACKSLASH, LOWER_U, DIGIT_ZERO, DIGIT_ZERO, UPPER_E, DIGIT_ONE>>,
     <<BACKSLASH, LOWER_U, DIGIT_ZERO, DIGIT_ZERO, LOWER_F, LOWER_A>>,
     <<BACKSLASH, LOWER_U, LOWER_D, DIGIT_SEVEN, LOWER_F, LOWER_F>>,
     <<BACKSLASH, LOWER_U, UPPER_D, DIGIT_EIGHT, DIGIT_ZERO, DIGIT_ZERO>>,
     <<BACKSLASH, LOWER_U, LOWER_D, LOWER_F, UPPER_F, UPPER_F>>,
     <<BACKSLASH, LOWER_U, UPPER_E, DIGIT_ZERO, DIGIT_ZERO, DIGIT_ZERO>>,
     <<BACKSLASH, LOWER_U, DIGIT_ZERO, DIGIT_ZERO>>,
     <<BACKSLASH, LOWER_U, DIGIT_ZERO, LOWER_G, DIGIT_ZERO, DIGIT_ZERO>>,
     <<BACKSLASH, LOWER_U, DIGIT_ZERO, E_ACUTE>>,
     <<BACKSLASH, UPPER_U, DIGIT_ZERO, DIGIT_ZERO, DIGIT_ONE, DIGIT_ZERO,
       UPPER_F, LOWER_F, UPPER_F, LOWER_F>>,
     <<BACKSLASH, UPPER_U, DIGIT_ZERO, DIGIT_ZERO, DIGIT_ONE, DIGIT_ONE,
       DIGIT_ZERO, DIGIT_ZERO, DIGIT_ZERO, DIGIT_ZERO>>,
     <<BACKSLASH, UPPER_U, UPPER_F, UPPER_F, UPPER_F, UPPER_F,
       UPPER_F, UPPER_F, UPPER_F, UPPER_F>>,
     <<BACKSLASH, UPPER_U, DIGIT_ZERO, DIGIT_ZERO, DIGIT_ZERO, DIGIT_ZERO,
       UPPER_D, DIGIT_EIGHT, DIGIT_ZERO, DIGIT_ZERO>>,
     <<BACKSLASH, UPPER_U, DIGIT_ZERO, DIGIT_ZERO, DIGIT_ZERO, DIGIT_ZERO,
       DIGIT_ZERO, DIGIT_ZERO, UPPER_E, DIGIT_ONE>>,
     <<BACKSLASH, UPPER_U, DIGIT_ZERO, DIGIT_ZERO, DIGIT_ONE, DIGIT_ZERO>>,
     <<BACKSLASH, UPPER_U, DIGIT_ZERO, DIGIT_ZERO, LOWER_G>>}

\* a backslash before a line feed, alone and with more whitespace behind it
ContinuationPieces ==
    {<<BACKSLASH, LF>>, <<BACKSLASH, LF, SPACE, HT, LF, FF, CR>>}

Pieces == LiteralPieces \cup EscapePieces \cup UnicodePieces \cup ContinuationPieces

\* the texts of at most n pieces
RECURSIVE UnescapeTexts(_)
UnescapeTexts(n) ==
    IF n = 0 THEN {<<>>}
    ELSE LET shorter == UnescapeTexts(n - 1)
         IN  shorter \cup {piece \o text : piece \in Pieces, text \in shorter}

\* unescape(input, mode), before the first next()
InitUnescape ==
    /\ pc = "unescape"
    /\ MergeIdle
    /\ BuildIdle
    /\ RenderIdle
    /\ QuoteIdle
    /\ SegmentIdle
    /\ IterIdle
    /\ input \in UnescapeTexts(MaxPieces)
    /\ mode \in Modes
    /\ chars = <<>>
    /\ frontiter = None
    /\ escaped = input
    /\ unescape = UnescapeNew(input, mode)
    /\ collected = <<>>
    /\ error = None

NextUnescape == UnescapeCollect

SpecUnescape == InitUnescape /\ [][NextUnescape]_vars

-----------------------------------------------------------------------------
(* escape.rs: the methods of Iterator and ExactSizeIterator that Escape    *)
(* and EscapeUnicode implement themselves, called on an iterator in any    *)
(* state next() leaves it in.                                              *)

GRINNING_FACE == 128512

\* the characters the iterators are made of
IterAlphabet ==
    {0, HT, LF, CR, 31, DEL, QUOTATION_MARK, BACKSLASH, LOWER_A, E_ACUTE,
     GRINNING_FACE}

\* a call on an iterator: the method, the iterator before and after the
\* call, the argument of nth and the value returned
Call(method, before, n, after, result) ==
    [method |-> method, before |-> before, n |-> n, after |-> after,
     result |-> result]

InitIterators ==
    /\ pc = "iterate"
    /\ EscIdle
    /\ MergeIdle
    /\ BuildIdle
    /\ RenderIdle
    /\ QuoteIdle
    /\ SegmentIdle
    /\ \E c \in IterAlphabet :
          \/ \E m \in Modes :
                /\ esc_it = Some(EscapeNew(c, m))
                /\ uni_it = None
                /\ call = Call("Escape::new", None, 0, esc_it, None)
          \/ /\ esc_it = None
             /\ uni_it = Some(EscapeUnicodeNew(c))
             /\ call = Call("EscapeUnicode::new", None, 0, uni_it, None)

\* escape.next()
EscapeCallNext ==
    /\ pc = "iterate"
    /\ esc_it.tag = "Some"
    /\ LET r == EscapeNext(esc_it.v)
       IN  /\ esc_it' = Some(r[1])
           /\ call' = Call("Escape::next", esc_it, 0, esc_it', r[2])
    /\ UNCHANGED <<pc, uni_it>>
    /\ UNCHANGED <<escVars, mergeVars, buildVars, renderVars, quoteVars, segmentVars>>

\* escape.nth(n)
EscapeCallNth ==
    /\ pc = "iterate"
    /\ esc_it.tag = "Some"
    /\ \E n \in 0..MaxNth :
          LET r == EscapeNth(esc_it.v, n)
          IN  /\ esc_it' = Some(r[1])
              /\ call' = Call("Escape::nth", esc_it, n, esc_it', r[2])
    /\ UNCHANGED <<pc, uni_it>>
    /\ UNCHANGED <<escVars, mergeVars, buildVars, renderVars, quoteVars, segmentVars>>

\* escape.len()
EscapeCallLen ==
    /\ pc = "iterate"
    /\ esc_it.tag = "Some"
    /\ call' = Call("Escape::len", esc_it, 0, esc_it, EscapeLen(esc_it.v))
    /\ UNCHANGED <<pc, esc_it, uni_it>>
    /\ UNCHANGED <<escVars, mergeVars, buildVars, renderVars, quoteVars, segmentVars>>

\* escape.last(): the iterator is moved into the call
EscapeCallLast ==
    /\ pc = "iterate"
    /\ esc_it.tag = "Some"
    /\ esc_it' = None
    /\ call' = Call("Escape::last", esc_it, 0, None, EscapeLast(esc_it.v))
    /\ UNCHANGED <<pc, uni_it>>
    /\ UNCHANGED <<escVars, mergeVars, buildVars, renderVars, quoteVars, segmentVars>>

\* escape_unicode.next()
EscapeUnicodeCallNext ==
    /\ pc = "iterate"
    /\ uni_it.tag = "Some"
    /\ LET r == EscapeUnicodeNext(uni_it.v)
       IN  /\ uni_it' = Some(r[1])
           /\ call' = Call("EscapeUnicode::next", uni_it, 0, uni_it', r[2])
    /\ UNCHANGED <<pc, esc_it>>
    /\ UNCHANGED <<escVars, mergeVars, buildVars, renderVars, quoteVars, segmentVars>>

\* escape_unicode.nth(n)
EscapeUnicodeCallNth ==
    /\ pc = "iterate"
    /\ uni_it.tag = "Some"
    /\ \E n \in 0..MaxNth :
          LET r == EscapeUnicodeNth(uni_it.v, n)
          IN  /\ uni_it' = Some(r[1])
              /\ call' = Call("EscapeUnicode::nth", uni_it, n, uni_it', r[2])
    /\ UNCHANGED <<pc, esc_it>>
    /\ UNCHANGED <<escVars, mergeVars, buildVars, renderVars, quoteVars, segmentVars>>

\* escape_unicode.len()
EscapeUnicodeCallLen ==
    /\ pc = "iterate"
    /\ uni_it.tag = "Some"
    /\ call' = Call("EscapeUnicode::len", uni_it, 0, uni_it,
                    EscapeUnicodeLen(uni_it.v))
    /\ UNCHANGED <<pc, esc_it, uni_it>>
    /\ UNCHANGED <<escVars, mergeVars, buildVars, renderVars, quoteVars, segmentVars>>

\* escape_unicode.last(): the iterator is moved into the call
EscapeUnicodeCallLast ==
    /\ pc = "iterate"
    /\ uni_it.tag = "Some"
    /\ uni_it' = None
    /\ call' = Call("EscapeUnicode::last", uni_it, 0, None,
                    EscapeUnicodeLast(uni_it.v))
    /\ UNCHANGED <<pc, esc_it>>
    /\ UNCHANGED <<escVars, mergeVars, buildVars, renderVars, quoteVars, segmentVars>>

NextIterators ==
    \/ EscapeCallNext
    \/ EscapeCallNth
    \/ EscapeCallLen
    \/ EscapeCallLast
    \/ EscapeUnicodeCallNext
    \/ EscapeUnicodeCallNth
    \/ EscapeUnicodeCallLen
    \/ EscapeUnicodeCallLast

SpecIterators == InitIterators /\ [][NextIterators]_vars

-----------------------------------------------------------------------------
(* value.rs, comment.rs: the document tree.  A Table is the sequence of    *)
(* the entries of its IndexMap<String, Item>, in the map's order.          *)

\* Comment: Kind<String>, Pre or Post
Comment(kind, text) == [kind |-> kind, comment |-> text]

\* Item { comments, value }
Item(cs, value) == [comments |-> cs, value |-> value]

\* Value::Primitive, Value::Array, Value::Table
Primitive(p) == [shape |-> "Primitive", primitive |-> p]
Array(items) == [shape |-> "Array", array |-> items]
Table(entries) == [shape |-> "Table", table |-> entries]

\* one entry of a Table's IndexMap
Entry(segment, item) == [segment |-> segment, item |-> item]

\* the keys of a Table, in order
Segments(table) == [i \in 1..Len(table) |-> table[i].segment]

\* IndexMap::get_index_of: the position of a key in a Table, 0 if absent
RECURSIVE IndexOfFrom(_, _, _)
IndexOfFrom(table, segment, i) ==
    IF i > Len(table) THEN 0
    ELSE IF table[i].segment = segment THEN i
    ELSE IndexOfFrom(table, segment, i + 1)

IndexOf(table, segment) == IndexOfFrom(table, segment, 1)

-----------------------------------------------------------------------------
(* merge.rs.  merge mutates self or panics: the result is the panic        *)
(* message, "" for none, and self after the call.                          *)

Merged(v) == [panic |-> "", value |-> v]
Panic(message) == [panic |-> message, value |-> None]

PanicPrimitive == "Can't merge a primitive value."
PanicTable == "Can't merge a table value with a not-table value."
PanicArray == "Can't merge an array value with a not-array value."

\* impl Merge for Array with the operands of append exchanged
ArrayMergePrepend(self, value) ==
    IF value.shape = "Array"
    THEN Merged(value.array \o self)
    ELSE Panic(PanicArray)

\* impl Merge for Array with a value that is no array pushed as an element
ArrayMergePush(self, value) ==
    IF value.shape = "Array"
    THEN Merged(self \o value.array)
    ELSE Merged(Append(self, Item(<<>>, value)))

\* impl Merge for Array: self.append(&mut other)
ArrayMerge(self, value) ==
    IF value.shape = "Array"
    THEN Merged(self \o value.array)
    ELSE Panic(PanicArray)

RECURSIVE ValueMerge(_, _)
RECURSIVE TableMergeFrom(_, _, _)

\* impl Merge for Table with the incoming comments put first and a new
\* entry inserted before the existing ones
TableMergeFromFront(self, other, i) ==
    IF i > Len(other) THEN Merged(self)
    ELSE LET segment == other[i].segment
             source == other[i].item
             at == IndexOf(self, segment)
         IN  IF at # 0
             THEN LET target == self[at].item
                      r == ValueMerge(target.value, source.value)
                  IN  IF r.panic # "" THEN r
                      ELSE TableMergeFrom(
                               [self EXCEPT ![at].item =
                                   Item(source.comments \o target.comments, r.value)],
                               other, i + 1)
             ELSE TableMergeFrom(<<Entry(segment, source)>> \o self, other, i + 1)

\* impl Merge for Table, the loop from the i-th entry of other on
TableMergeFrom(self, other, i) ==
    IF i > Len(other) THEN Merged(self)
    ELSE LET segment == other[i].segment
             source == other[i].item
             at == IndexOf(self, segment)
         IN  IF at # 0
             THEN LET target == self[at].item
                      r == ValueMerge(target.value, source.value)
                  IN  IF r.panic # "" THEN r
                      ELSE TableMergeFrom(
                               [self EXCEPT ![at].item =
                                   Item(target.comments \o source.comments, r.value)],
                               other, i + 1)
             ELSE TableMergeFrom(Append(self, Entry(segment, source)), other, i + 1)

\* impl Merge for Table with the target merged into the incoming table
TableMergeIncomingFirst(self, value) ==
    IF value.shape = "Table"
    THEN TableMergeFrom(value.table, self, 1)
    ELSE Panic(PanicTable)

\* impl Merge for Table
TableMerge(self, value) ==
    IF value.shape = "Table"
    THEN TableMergeFrom(self, value.table, 1)
    ELSE Panic(PanicTable)

\* impl Merge for Value with a primitive target kept as it is
ValueMergeKeepPrimitive(self, value) ==
    CASE self.shape = "Table" ->
            LET r == TableMerge(self.table, value)
            IN  IF r.panic # "" THEN r ELSE Merged(Table(r.value))
      [] self.shape = "Array" ->
            LET r == ArrayMerge(self.array, value)
            IN  IF r.panic # "" THEN r ELSE Merged(Array(r.value))
      [] OTHER -> Merged(self)

\* impl Merge for Value with a primitive target overwritten by the value
ValueMergeOverwritePrimitive(self, value) ==
    CASE self.shape = "Table" ->
            LET r == TableMerge(self.table, value)
            IN  IF r.panic # "" THEN r ELSE Merged(Table(r.value))
      [] self.shape = "Array" ->
            LET r == ArrayMerge(self.array, value)
            IN  IF r.panic # "" THEN r ELSE Merged(Array(r.value))
      [] OTHER -> Merged(value)

\* impl Merge for Value
ValueMerge(self, value) ==
    CASE self.shape = "Table" ->
            LET r == TableMerge(self.table, value)
            IN  IF r.panic # "" THEN r ELSE Merged(Table(r.value))
      [] self.shape = "Array" ->
            LET r == ArrayMerge(self.array, value)
            IN  IF r.panic # "" THEN r ELSE Merged(Array(r.value))
      [] OTHER -> Panic(PanicPrimitive)

-----------------------------------------------------------------------------
(* The values handed to merge: every value of a given number of items,     *)
(* over the keys, primitives and comment lists of a universe u; the        *)
(* elements of an array are themselves containers of items only when       *)
(* u.nested_arrays.                                                        *)

\* the items of n entries and elements, from the levels of fewer
ItemsOfSize(levels, n, u) ==
    {Item(c, v) : c \in u.comments, v \in levels[n].values}

\* the arrays, tables and values of n items, from the levels of fewer:
\* levels[k + 1] is the level of k items
Level(levels, n, u) ==
    LET arrays ==
            IF n = 0 THEN {<<>>}
            ELSE UNION {{<<it>> \o rest : it \in ItemsOfSize(levels, m, u),
                                         rest \in levels[n - m + 1].arrays} :
                        m \in IF u.nested_arrays THEN 1..n ELSE {1}}
        tables ==
            IF n = 0 THEN {<<>>}
            ELSE UNION {UNION {{<<Entry(k, it)>> \o rest :
                                   it \in ItemsOfSize(levels, m, u),
                                   rest \in {t \in levels[n - m + 1].tables :
                                               \A i \in 1..Len(t) : t[i].segment # k}} :
                               k \in u.keys} : m \in 1..n}
    IN  [arrays |-> arrays, tables |-> tables,
         values |-> (IF n = 0 THEN {Primitive(p) : p \in u.primitives} ELSE {})
                        \cup {Array(x) : x \in arrays}
                        \cup {Table(x) : x \in tables}]

RECURSIVE Levels(_, _, _)
Levels(levels, n, u) ==
    IF Len(levels) > n THEN levels
    ELSE Levels(Append(levels, Level(levels, Len(levels), u)), n, u)

\* by number of items k, at index k + 1: the values of a universe
ValuesBySize(n, u) == LET l == Levels(<<>>, n, u) IN [k \in 1..(n + 1) |-> l[k].values]
ArraysBySize(n, u) == LET l == Levels(<<>>, n, u) IN [k \in 1..(n + 1) |-> l[k].arrays]
TablesBySize(n, u) == LET l == Levels(<<>>, n, u) IN [k \in 1..(n + 1) |-> l[k].tables]

KeyA == <<97>>
KeyB == <<98>>
KeyC == <<99>>

\* the shapes merged: values over two keys whose items have no comments,
\* whose primitives are all alike and whose arrays hold primitives and
\* empty containers
Universe ==
    [keys |-> {KeyA, KeyB}, primitives |-> {"true"}, comments |-> {<<>>},
     nested_arrays |-> FALSE]

\* the shapes of the arrays merged: arrays of primitives and empty containers
ElementUniverse ==
    [keys |-> {}, primitives |-> {"true"}, comments |-> {<<>>},
     nested_arrays |-> FALSE]

\* the shapes by number of items
Shapes == ValuesBySize(MaxNodes, Universe)
ArrayShapes == ArraysBySize(MaxNodes, ElementUniverse)

\* a shape with the comments cs on every item and every primitive p
RECURSIVE Marked(_, _, _)
Marked(value, cs, p) ==
    CASE value.shape = "Primitive" -> Primitive(p)
      [] value.shape = "Array" ->
            Array([i \in 1..Len(value.array) |->
                      Item(cs, Marked(value.array[i].value, cs, p))])
      [] value.shape = "Table" ->
            Table([i \in 1..Len(value.table) |->
                      Entry(value.table[i].segment,
                            Item(cs, Marked(value.table[i].item.value, cs, p)))])

\* the items of A, of B and of C either carry no comment or one of their own
CommentsA == {<<>>, <<Comment("Pre", "a")>>}
CommentsB == {<<>>, <<Comment("Post", "b")>>}
CommentsC == {<<>>, <<Comment("Pre", "c")>>}

\* target.merge(source) of two values
InitMerge ==
    /\ pc = "merge_ab"
    /\ EscIdle
    /\ BuildIdle
    /\ RenderIdle
    /\ QuoteIdle
    /\ SegmentIdle
    /\ IterIdle
    /\ \E na \in 0..MaxNodes : \E nb \in 0..(MaxNodes - na) :
           \E ca \in CommentsA : \E cb \in CommentsB :
             \E va \in Shapes[na + 1] : \E vb \in Shapes[nb + 1] :
                /\ a_val = Marked(va, ca, "true")
                /\ b_val = Marked(vb, cb, "false")
    /\ c_val = None
    /\ ab = None
    /\ ab_c = None
    /\ bc = None
    /\ a_bc = None

\* merges of three arrays, in both groupings
InitMergeArrays ==
    /\ pc = "merge_ab"
    /\ EscIdle
    /\ BuildIdle
    /\ RenderIdle
    /\ QuoteIdle
    /\ SegmentIdle
    /\ IterIdle
    /\ \E na \in 0..MaxNodes : \E nb \in 0..(MaxNodes - na) :
         \E nc \in 0..(MaxNodes - na - nb) :
           \E ca \in CommentsA : \E cb \in CommentsB : \E cc \in CommentsC :
             \E xa \in ArrayShapes[na + 1] : \E xb \in ArrayShapes[nb + 1] :
               \E xc \in ArrayShapes[nc + 1] :
                  /\ a_val = Marked(Array(xa), ca, "true")
                  /\ b_val = Marked(Array(xb), cb, "false")
                  /\ c_val = Marked(Array(xc), cc, "0")
    /\ ab = None
    /\ ab_c = None
    /\ bc = None
    /\ a_bc = None

\* the shapes that are tables, by number of items
TableShapes == [k \in 1..(MaxTableNodes + 1) |->
                   {v \in ValuesBySize(MaxTableNodes, Universe)[k] : v.shape = "Table"}]

\* the comments of the items of one table: its own, or none
OwnComments(choices, commented) ==
    IF commented THEN CHOOSE cs \in choices : cs # <<>> ELSE <<>>

\* merges of three tables, in both groupings: the items of the three carry
\* their comments or none does
InitMergeTables ==
    /\ pc = "merge_ab"
    /\ EscIdle
    /\ BuildIdle
    /\ RenderIdle
    /\ QuoteIdle
    /\ SegmentIdle
    /\ IterIdle
    /\ \E na \in 0..MaxTableNodes : \E nb \in 0..(MaxTableNodes - na) :
         \E nc \in 0..(MaxTableNodes - na - nb) :
           \E commented \in BOOLEAN :
             \E ta \in TableShapes[na + 1] : \E tb \in TableShapes[nb + 1] :
               \E tc \in TableShapes[nc + 1] :
                  /\ a_val = Marked(ta, OwnComments(CommentsA, commented), "true")
                  /\ b_val = Marked(tb, OwnComments(CommentsB, commented), "false")
                  /\ c_val = Marked(tc, OwnComments(CommentsC, commented), "0")
    /\ ab = None
    /\ ab_c = None
    /\ bc = None
    /\ a_bc = None

\* A.merge(B)
MergeAB ==
    /\ pc = "merge_ab"
    /\ ab' = ValueMerge(a_val, b_val)
    /\ pc' = IF ab'.panic = "" THEN "merge_ab_c" ELSE "merge_bc"
    /\ UNCHANGED <<a_val, b_val, c_val, ab_c, bc, a_bc>>
    /\ UNCHANGED <<escVars, buildVars, renderVars, quoteVars, segmentVars, iterVars>>

\* then .merge(C)
MergeAB_C ==
    /\ pc = "merge_ab_c"
    /\ ab_c' = ValueMerge(ab.value, c_val)
    /\ pc' = "merge_bc"
    /\ UNCHANGED <<a_val, b_val, c_val, ab, bc, a_bc>>
    /\ UNCHANGED <<escVars, buildVars, renderVars, quoteVars, segmentVars, iterVars>>

\* B.merge(C)
MergeBC ==
    /\ pc = "merge_bc"
    /\ bc' = ValueMerge(b_val, c_val)
    /\ pc' = IF bc'.panic = "" THEN "merge_a_bc" ELSE "merged"
    /\ UNCHANGED <<a_val, b_val, c_val, ab, ab_c, a_bc>>
    /\ UNCHANGED <<escVars, buildVars, renderVars, quoteVars, segmentVars, iterVars>>

\* A.merge(B merged with C)
MergeA_BC ==
    /\ pc = "merge_a_bc"
    /\ a_bc' = ValueMerge(a_val, bc.value)
    /\ pc' = "merged"
    /\ UNCHANGED <<a_val, b_val, c_val, ab, ab_c, bc>>
    /\ UNCHANGED <<escVars, buildVars, renderVars, quoteVars, segmentVars, iterVars>>

NextMerge == MergeAB

SpecMerge == InitMerge /\ [][NextMerge]_vars

NextMergeArrays == MergeAB \/ MergeAB_C \/ MergeBC \/ MergeA_BC

SpecMergeArrays == InitMergeArrays /\ [][NextMergeArrays]_vars

SpecMergeTables == InitMergeTables /\ [][NextMergeArrays]_vars

-----------------------------------------------------------------------------
(* key.rs: a Key is a sequence of Segments; a Segment is the logical text  *)
(* of one key part and the quoting it is written with.                     *)

\* Segment::Unquoted
Unquoted(text) == [variant |-> "Unquoted", text |-> text]

\* Segment::Quoted(Quoted::SingleLine(..)) / Quoted::MultiLine(..), with
\* Quotes::Single or Quotes::Double
Quoted(lines_mode, quotes, text) ==
    [variant |-> "Quoted", mode |-> lines_mode, quotes |-> quotes, text |-> text]

\* Segment::into_inner with the quotes of a quoted segment kept in the text
into_inner_quoted(segment) ==
    IF segment.variant = "Unquoted" THEN segment.text
    ELSE <<APOSTROPHE>> \o segment.text \o <<APOSTROPHE>>

\* Segment::into_inner, From<Segment> for String: the text of every variant
into_inner(segment) ==
    CASE segment.variant = "Unquoted" -> segment.text
      [] segment.variant = "Quoted" -> segment.text

\* Kind::Table(key), Kind::ArrayOfTables(key)
KindTable(key) == [kind |-> "Table", inner |-> key]
KindArrayOfTables(key) == [kind |-> "ArrayOfTables", inner |-> key]

-----------------------------------------------------------------------------
(* value.rs: Item::from and Value::wrap.                                   *)

\* From<Value> for Item: no comments
ItemFrom(value) == Item(<<>>, value)

\* Value::wrap that forgets every segment but the last
wrap_last_segment(key, item) ==
    IF key = <<>> THEN item.value
    ELSE Table(<<Entry(into_inner(key[Len(key)]), item)>>)

\* Value::wrap: one table of one entry per segment, the item innermost
RECURSIVE wrap(_, _)
wrap(key, item) ==
    IF key = <<>> THEN item.value
    ELSE LET segment == key[Len(key)]
             rest == SubSeq(key, 1, Len(key) - 1)
             value == Table(<<Entry(into_inner(segment), item)>>)
         IN  IF rest # <<>> THEN wrap(rest, ItemFrom(value)) ELSE value

-----------------------------------------------------------------------------
(* ast.rs: Lines, Line, Data, State and the fold of the lines into a Table *)

Header(key) == [tag |-> "Header", key |-> key]
KeyValue(key, value) == [tag |-> "KeyValue", key |-> key, value |-> value]
Line(data, meta) == [data |-> data, meta |-> meta]

Unheaded(table) == [tag |-> "Unheaded", table |-> table]
Headed(cs, key, inner_table, outer_table) ==
    [tag |-> "Headed", comments |-> cs, key |-> key,
     inner_table |-> inner_table, outer_table |-> outer_table]

\* State::new
StateNew == Unheaded(<<>>)

\* Comments::maybe_push with the comment put before the ones pushed earlier
maybe_push_front(cs, comment) ==
    IF comment.tag = "Some" THEN <<comment.v>> \o cs ELSE cs

\* Comments::maybe_push
maybe_push(cs, comment) ==
    IF comment.tag = "Some" THEN Append(cs, comment.v) ELSE cs

\* State::into_table with the header's comments left on the item that holds
\* the array
into_table_comments_on_array(st) ==
    IF st.tag = "Unheaded" THEN Merged(st.table)
    ELSE LET item == IF st.key.kind = "ArrayOfTables"
                     THEN Item(st.comments,
                               Array(<<ItemFrom(Table(st.inner_table))>>))
                     ELSE Item(st.comments, Table(st.inner_table))
         IN  TableMerge(st.outer_table, wrap(st.key.inner, item))

\* State::into_table: the table, or the panic of the merge
into_table(st) ==
    IF st.tag = "Unheaded" THEN Merged(st.table)
    ELSE LET inner == Item(st.comments, Table(st.inner_table))
             item == IF st.key.kind = "ArrayOfTables"
                     THEN ItemFrom(Array(<<inner>>))
                     ELSE inner
             value == wrap(st.key.inner, item)
         IN  TableMerge(st.outer_table, value)

\* State::table_mut, read and written
table_mut(st) ==
    IF st.tag = "Unheaded" THEN st.table ELSE st.inner_table

\* State::table_mut written, with outer_table taken in the Headed state
table_mut_set_outer(st, table) ==
    IF st.tag = "Unheaded"
    THEN [st EXCEPT !.table = table]
    ELSE [st EXCEPT !.outer_table = table]

table_mut_set(st, table) ==
    IF st.tag = "Unheaded"
    THEN [st EXCEPT !.table = table]
    ELSE [st EXCEPT !.inner_table = table]

\* the lines fed to the builder
KeyD == <<100>>
SegA == Unquoted(KeyA)
SegQuotedA == Quoted("SingleLine", "Single", KeyA)
SegB == Unquoted(KeyB)
SegC == Unquoted(KeyC)
SegD == Unquoted(KeyD)

HeaderLines ==
    {Line(Header(KindTable(k)), None) :
        k \in {<<SegA>>, <<SegQuotedA>>, <<SegA, SegC>>, <<SegB, SegD>>}}
    \cup {Line(Header(KindArrayOfTables(k)), None) :
        k \in {<<SegB>>, <<SegA, SegC>>, <<SegB, SegD>>}}
    \cup {Line(Header(KindArrayOfTables(<<SegB>>)), Some(Comment("Post", "h")))}

KeyValueLines ==
    {Line(KeyValue(k, Primitive("true")), None) :
        k \in {<<SegB>>, <<SegD>>, <<SegA, SegB>>}}
    \cup {Line(KeyValue(<<SegD>>, Primitive("true")), Some(Comment("Post", "v")))}

OtherLines ==
    {Line(None, Some(Comment("Pre", "c"))), Line(None, None)}

InitBuild ==
    /\ pc = "build"
    /\ EscIdle
    /\ MergeIdle
    /\ RenderIdle
    /\ QuoteIdle
    /\ SegmentIdle
    /\ IterIdle
    /\ lines = <<>>
    /\ state = StateNew
    /\ comments = <<>>
    /\ root = None

\* one turn of the loop, Some(Data::Header(key))
BuildHeader ==
    /\ pc = "build"
    /\ Len(lines) < MaxLines
    /\ \E line \in HeaderLines :
         LET cs == maybe_push(comments, line.meta)
             outer == into_table(state)
         IN  /\ lines' = Append(lines, line)
             /\ comments' = <<>>
             /\ IF outer.panic # ""
                THEN /\ pc' = "panicked"
                     /\ root' = outer
                     /\ state' = state
                ELSE /\ pc' = "build"
                     /\ root' = root
                     /\ state' = Headed(cs, line.data.key, <<>>, outer.value)
    /\ UNCHANGED <<escVars, mergeVars, renderVars, quoteVars, segmentVars, iterVars>>

\* one turn of the loop, Some(Data::KeyValue { key, value })
BuildKeyValue ==
    /\ pc = "build"
    /\ Len(lines) < MaxLines
    /\ \E line \in KeyValueLines :
         LET cs == maybe_push(comments, line.meta)
             value == wrap(line.data.key, Item(cs, line.data.value))
             merged == TableMerge(table_mut(state), value)
         IN  /\ lines' = Append(lines, line)
             /\ comments' = <<>>
             /\ IF merged.panic # ""
                THEN /\ pc' = "panicked"
                     /\ root' = merged
                     /\ state' = state
                ELSE /\ pc' = "build"
                     /\ root' = root
                     /\ state' = table_mut_set(state, merged.value)
    /\ UNCHANGED <<escVars, mergeVars, renderVars, quoteVars, segmentVars, iterVars>>

\* one turn of the loop, a line without data
BuildOther ==
    /\ pc = "build"
    /\ Len(lines) < MaxLines
    /\ \E line \in OtherLines :
         /\ lines' = Append(lines, line)
         /\ comments' = maybe_push(comments, line.meta)
    /\ UNCHANGED <<pc, state, root>>
    /\ UNCHANGED <<escVars, mergeVars, renderVars, quoteVars, segmentVars, iterVars>>

\* the end of the lines: state.into_table()
BuildFinish ==
    /\ pc = "build"
    /\ root' = into_table(state)
    /\ pc' = IF root'.panic # "" THEN "panicked" ELSE "built"
    /\ UNCHANGED <<lines, state, comments>>
    /\ UNCHANGED <<escVars, mergeVars, renderVars, quoteVars, segmentVars, iterVars>>

NextBuild == BuildHeader \/ BuildKeyValue \/ BuildOther \/ BuildFinish

SpecBuild == InitBuild /\ [][NextBuild]_vars

-----------------------------------------------------------------------------
(* escape/mod.rs Flags, quotes.rs, key.rs Segment::new and the Display of  *)
(* quoted text, segments and keys.                                         *)

LOW_LINE == 95
HYPHEN_MINUS == 45
FULL_STOP == 46
COMMA == 44
EQUALS_SIGN == 61
NUMBER_SIGN == 35
LEFT_SQUARE_BRACKET == 91
RIGHT_SQUARE_BRACKET == 93
LEFT_CURLY_BRACKET == 123

\* char::is_ascii_alphanumeric
is_ascii_alphanumeric(c) ==
    (48 <= c /\ c <= 57) \/ (65 <= c /\ c <= 90) \/ (97 <= c /\ c <= 122)

\* Flags::default
FlagsDefault ==
    [is_quoted |-> FALSE, has_lf_or_cr |-> FALSE, has_escape |-> FALSE,
     has_apostrophe |-> FALSE]

\* the flags of the last character of the input alone
FlagsOfLast(str, i, flags) ==
    IF str = <<>> THEN flags
    ELSE LET c == str[Len(str)]
         IN  [is_quoted |-> ~is_ascii_alphanumeric(c) /\ c # LOW_LINE /\ c # HYPHEN_MINUS,
              has_lf_or_cr |-> c = LF \/ c = CR,
              has_escape |-> is_ascii_control(c) /\ c # HT /\ c # LF /\ c # CR,
              has_apostrophe |-> c = APOSTROPHE]

\* Flags::parse, the loop from the i-th character of the input on
RECURSIVE FlagsParseFrom(_, _, _)
FlagsParseFrom(str, i, flags) ==
    IF i > Len(str) THEN flags
    ELSE LET c == str[i]
             f1 == IF ~flags.is_quoted
                   THEN [flags EXCEPT !.is_quoted =
                            ~is_ascii_alphanumeric(c) /\ c # LOW_LINE /\ c # HYPHEN_MINUS]
                   ELSE flags
             f2 == IF ~f1.has_lf_or_cr
                   THEN [f1 EXCEPT !.has_lf_or_cr = (c = LF \/ c = CR)]
                   ELSE f1
             f3 == IF ~f2.has_escape
                   THEN [f2 EXCEPT !.has_escape =
                            is_ascii_control(c) /\ c # HT /\ c # LF /\ c # CR]
                   ELSE f2
             f4 == IF ~f3.has_apostrophe
                   THEN [f3 EXCEPT !.has_apostrophe = (c = APOSTROPHE)]
                   ELSE f3
         IN  IF f4.is_quoted /\ f4.has_lf_or_cr /\ f4.has_escape /\ f4.has_apostrophe
             THEN f4
             ELSE FlagsParseFrom(str, i + 1, f4)

\* Flags::parse
FlagsParse(str) == FlagsParseFrom(str, 1, FlagsDefault)

\* escape(input, mode).collect::<String>()
RECURSIVE escape_collect(_, _, _)
escape_collect(cs, front, m) ==
    LET r == FlatMapNext(cs, front, m)
    IN  IF r[3].tag = "None" THEN <<>>
        ELSE <<r[3].v>> \o escape_collect(r[1], r[2], m)

\* Quoted::new with the apostrophe left out of the choice of the quotes
QuotedNewByEscapeOnly(str) ==
    LET flags == FlagsParse(str)
    IN  [mode |-> IF flags.has_lf_or_cr THEN "MultiLine" ELSE "SingleLine",
         quotes |-> IF flags.has_escape THEN "Double" ELSE "Single",
         text |-> str]

\* Quoted::new
QuotedNew(str) ==
    LET flags == FlagsParse(str)
    IN  IF flags.has_escape \/ flags.has_apostrophe
        THEN IF flags.has_lf_or_cr
             THEN [mode |-> "MultiLine", quotes |-> "Double", text |-> str]
             ELSE [mode |-> "SingleLine", quotes |-> "Double", text |-> str]
        ELSE IF flags.has_lf_or_cr
             THEN [mode |-> "MultiLine", quotes |-> "Single", text |-> str]
             ELSE [mode |-> "SingleLine", quotes |-> "Single", text |-> str]

\* Display for Quotes: the text between two quote characters
QuotesFmt(quotes, str) ==
    IF quotes = "Single"
    THEN <<APOSTROPHE>> \o str \o <<APOSTROPHE>>
    ELSE <<QUOTATION_MARK>> \o str \o <<QUOTATION_MARK>>

\* Display for Quoted
QuotedFmt(q) ==
    CASE q.mode = "SingleLine" /\ q.quotes = "Single" ->
            QuotesFmt("Single", q.text)
      [] q.mode = "MultiLine" /\ q.quotes = "Single" ->
            QuotesFmt("Single", QuotesFmt("Single", QuotesFmt("Single", q.text)))
      [] q.mode = "SingleLine" /\ q.quotes = "Double" ->
            QuotesFmt("Double", escape_collect(q.text, None, "SingleLine"))
      [] q.mode = "MultiLine" /\ q.quotes = "Double" ->
            QuotesFmt("Double", QuotesFmt("Double", QuotesFmt("Double",
                escape_collect(q.text, None, "MultiLine"))))

\* Segment::new through Quoted::new: the line mode of the text is kept
SegmentNewQuoted(str) ==
    LET flags == FlagsParse(str)
        q == QuotedNew(str)
    IN  IF flags.is_quoted THEN Quoted(q.mode, q.quotes, str) ELSE Unquoted(str)

\* Segment::new
SegmentNew(str) ==
    LET flags == FlagsParse(str)
    IN  IF flags.is_quoted
        THEN IF flags.has_lf_or_cr \/ flags.has_escape \/ flags.has_apostrophe
             THEN Quoted("SingleLine", "Double", str)
             ELSE Quoted("SingleLine", "Single", str)
        ELSE Unquoted(str)

\* Display for Segment
SegmentFmt(segment) ==
    IF segment.variant = "Unquoted" THEN segment.text ELSE QuotedFmt(segment)

\* Display for Key: the segments joined by "."
RECURSIVE KeyFmt(_)
KeyFmt(key) ==
    IF key = <<>> THEN <<>>
    ELSE IF Len(key) = 1 THEN SegmentFmt(key[1])
    ELSE SegmentFmt(key[1]) \o <<FULL_STOP>> \o KeyFmt(Tail(key))

-----------------------------------------------------------------------------
(* Flags::parse, Quoted::new and the Display of the Quoted, for one raw    *)
(* text.                                                                   *)

\* the characters a raw text is drawn from: letters, a digit, the low line,
\* the hyphen, the space, HT, LF, CR, two other controls, both quotes, the
\* backslash, a two-byte character
QuoteAlphabet ==
    {LOWER_A, UPPER_E, DIGIT_SEVEN, LOW_LINE, HYPHEN_MINUS, SPACE, HT, LF, CR,
     0, DEL, APOSTROPHE, QUOTATION_MARK, BACKSLASH, E_ACUTE}

\* a text whose first three characters set all four flags, with a fourth
\* and a fifth character behind them
AllFlagsEarly == <<0, LF, APOSTROPHE, LOWER_A, QUOTATION_MARK>>

RawTexts(n) == UNION {[1..k -> QuoteAlphabet] : k \in 0..n} \cup {AllFlagsEarly}

InitQuote ==
    /\ pc = "parse"
    /\ EscIdle
    /\ MergeIdle
    /\ BuildIdle
    /\ RenderIdle
    /\ SegmentIdle
    /\ IterIdle
    /\ raw \in RawTexts(MaxRaw)
    /\ parsed = None
    /\ quoted = None
    /\ shown = None
    /\ dotted = None
    /\ dotted_shown = None

\* Flags::parse(raw)
Parse ==
    /\ pc = "parse"
    /\ parsed' = FlagsParse(raw)
    /\ pc' = "new"
    /\ UNCHANGED <<raw, quoted, shown, dotted, dotted_shown>>
    /\ UNCHANGED <<escVars, mergeVars, buildVars, renderVars, segmentVars, iterVars>>

\* Quoted::new(raw)
New ==
    /\ pc = "new"
    /\ quoted' = QuotedNew(raw)
    /\ pc' = "fmt"
    /\ UNCHANGED <<raw, parsed, shown, dotted, dotted_shown>>
    /\ UNCHANGED <<escVars, mergeVars, buildVars, renderVars, segmentVars, iterVars>>

\* quoted.to_string()
Fmt ==
    /\ pc = "fmt"
    /\ shown' = QuotedFmt(quoted)
    /\ pc' = "shown"
    /\ UNCHANGED <<raw, parsed, quoted, dotted, dotted_shown>>
    /\ UNCHANGED <<escVars, mergeVars, buildVars, renderVars, segmentVars, iterVars>>

\* a text read backwards
Reversed(str) == [i \in 1..Len(str) |-> str[Len(str) + 1 - i]]

\* Key::from_iter(vec![raw, the raw text read backwards])
NewKey ==
    /\ pc = "shown"
    /\ dotted' = <<SegmentNew(raw), SegmentNew(Reversed(raw))>>
    /\ pc' = "key"
    /\ UNCHANGED <<raw, parsed, quoted, shown, dotted_shown>>
    /\ UNCHANGED <<escVars, mergeVars, buildVars, renderVars, segmentVars, iterVars>>

\* key.to_string()
FmtKey ==
    /\ pc = "key"
    /\ dotted_shown' = KeyFmt(dotted)
    /\ pc' = "key_shown"
    /\ UNCHANGED <<raw, parsed, quoted, shown, dotted>>
    /\ UNCHANGED <<escVars, mergeVars, buildVars, renderVars, segmentVars, iterVars>>

NextQuote == Parse \/ New \/ Fmt \/ NewKey \/ FmtKey

SpecQuote == InitQuote /\ [][NextQuote]_vars

-----------------------------------------------------------------------------
(* key.rs: #[derive(Eq, Hash, PartialEq)] on Segment, on Quoted and on     *)
(* Quotes, for two segments.                                               *)

\* the derived PartialEq::eq: the same variant at every level of the enum
\* and the same text
SegmentEq(a, b) ==
    /\ a.variant = b.variant
    /\ IF a.variant = "Unquoted"
       THEN a.text = b.text
       ELSE a.mode = b.mode /\ a.quotes = b.quotes /\ a.text = b.text

\* what the derived Hash::hash writes to the Hasher: the discriminant of
\* every level of the enum and the text
SegmentHash(a) ==
    IF a.variant = "Unquoted"
    THEN <<"Unquoted", a.text>>
    ELSE <<"Quoted", a.mode, a.quotes, a.text>>

\* the characters the texts of the segments are drawn from
SegmentAlphabet == {LOWER_A, APOSTROPHE, LF}

\* every Segment of a text: Unquoted and the four Quoted
SegmentsOf(str) ==
    {Unquoted(str)}
    \cup {Quoted(m, q, str) : m \in Modes, q \in {"Single", "Double"}}

InitSegments ==
    /\ pc = "compare"
    /\ EscIdle
    /\ MergeIdle
    /\ BuildIdle
    /\ RenderIdle
    /\ QuoteIdle
    /\ IterIdle
    /\ \E str \in UNION {[1..k -> SegmentAlphabet] : k \in 0..MaxSegment} :
          /\ lhs \in SegmentsOf(str)
          /\ rhs \in SegmentsOf(str) \cup SegmentsOf(Reversed(str))
    /\ eq_result = None
    /\ hash_result = None

\* lhs == rhs, and the two hashed by one Hasher
Compare ==
    /\ pc = "compare"
    /\ eq_result' = SegmentEq(lhs, rhs)
    /\ hash_result' = (SegmentHash(lhs) = SegmentHash(rhs))
    /\ pc' = "compared"
    /\ UNCHANGED <<lhs, rhs>>
    /\ UNCHANGED <<escVars, mergeVars, buildVars, renderVars, quoteVars, iterVars>>

NextSegments == Compare

SpecSegments == InitSegments /\ [][NextSegments]_vars

\* the characters of the texts that are quoted and read for their
\* delimiters: the two quote characters, the backslash that escapes, a
\* line feed and a letter
DelimiterAlphabet == {LOWER_A, LF, APOSTROPHE, QUOTATION_MARK, BACKSLASH}

\* Quoted::new and Segment::new of longer texts over fewer characters
InitDelimiters ==
    /\ pc = "parse"
    /\ EscIdle
    /\ MergeIdle
    /\ BuildIdle
    /\ RenderIdle
    /\ SegmentIdle
    /\ IterIdle
    /\ raw \in UNION {[1..k -> DelimiterAlphabet] : k \in 0..MaxDelimited}
    /\ parsed = None
    /\ quoted = None
    /\ shown = None
    /\ dotted = None
    /\ dotted_shown = None

SpecDelimiters == InitDelimiters /\ [][NextQuote]_vars

-----------------------------------------------------------------------------
(* format/independent.rs: the independent rendering of a Table.  The text  *)
(* written is kept as the sequence of its lines.                           *)

\* the is_inline closures handed to Independent::new: |_| false, |_| true
\* and |key| key.len() >= 2
IsInlineChoices == {"never", "always", "nested"}

\* is_inline(&key)
IsInline(f, key) ==
    CASE f = "never" -> FALSE
      [] f = "always" -> TRUE
      [] f = "nested" -> Len(key) >= 2

\* Comments::pre, Comments::post: the texts of the comments of one kind
pre(cs) ==
    LET s == SelectSeq(cs, LAMBDA c : c.kind = "Pre")
    IN  [i \in 1..Len(s) |-> s[i].comment]

post(cs) ==
    LET s == SelectSeq(cs, LAMBDA c : c.kind = "Post")
    IN  [i \in 1..Len(s) |-> s[i].comment]

\* the characters of the comment texts and of the Display of the primitives
\* of the model
Chars(s) ==
    CASE s = "a" -> <<97>>
      [] s = "b" -> <<98>>
      [] s = "c" -> <<99>>
      [] s = "h" -> <<104>>
      [] s = "v" -> <<118>>
      [] s = "0" -> <<48>>
      [] s = "true" -> <<116, 114, 117, 101>>
      [] s = "false" -> <<102, 97, 108, 115, 101>>

\* Display for Kind::Pre: writeln!(f, "#{}", comment) for every comment
RECURSIVE PreFmt(_)
PreFmt(texts) ==
    IF texts = <<>> THEN <<>>
    ELSE <<NUMBER_SIGN>> \o Chars(Head(texts)) \o <<LF>> \o PreFmt(Tail(texts))

\* comments.join(" ")
RECURSIVE JoinSpace(_)
JoinSpace(texts) ==
    IF texts = <<>> THEN <<>>
    ELSE IF Len(texts) = 1 THEN Chars(texts[1])
    ELSE Chars(texts[1]) \o <<SPACE>> \o JoinSpace(Tail(texts))

\* Display for Kind::Post: write!(f, " #{}", comments.join(" "))
PostFmt(texts) ==
    IF texts = <<>> THEN <<>> ELSE <<SPACE, NUMBER_SIGN>> \o JoinSpace(texts)

-----------------------------------------------------------------------------
(* format/inline.rs: the inline rendering of a value, as text.             *)

\* PadAdapter: four spaces before the first character of every line
RECURSIVE PadFrom(_, _, _)
PadFrom(str, i, on_newline) ==
    IF i > Len(str) THEN <<>>
    ELSE (IF on_newline THEN <<SPACE, SPACE, SPACE, SPACE>> ELSE <<>>)
         \o <<str[i]>> \o PadFrom(str, i + 1, str[i] = LF)

RECURSIVE InlineFmt(_, _)
RECURSIVE InlineArrayAlternate(_, _)
RECURSIVE InlineArrayCompact(_, _)
RECURSIVE InlineTableItems(_, _, _)

\* Display for Inline<&Array>, alternate: what is written to the pad adapter
InlineArrayAlternate(array, i) ==
    IF i > Len(array) THEN <<>>
    ELSE PreFmt(pre(array[i].comments))
         \o InlineFmt(array[i].value, TRUE) \o <<COMMA>>
         \o PostFmt(post(array[i].comments)) \o <<LF>>
         \o InlineArrayAlternate(array, i + 1)

\* Display for Inline<&Array>, non-alternate: the values joined by ", "
InlineArrayCompact(array, i) ==
    IF i > Len(array) THEN <<>>
    ELSE (IF i # 1 THEN <<COMMA, SPACE>> ELSE <<>>)
         \o InlineFmt(array[i].value, FALSE)
         \o InlineArrayCompact(array, i + 1)

\* Display for Inline<&Table>: the entries joined by ", "
InlineTableItems(table, i, alt) ==
    IF i > Len(table) THEN <<>>
    ELSE (IF i # 1 THEN <<COMMA, SPACE>> ELSE <<>>)
         \o SegmentFmt(SegmentNew(table[i].segment)) \o <<SPACE, EQUALS_SIGN, SPACE>>
         \o InlineFmt(table[i].item.value, alt)
         \o InlineTableItems(table, i + 1, alt)

\* Display for Inline<&Value>; alt is f.alternate()
InlineFmt(value, alt) ==
    CASE value.shape = "Primitive" -> Chars(value.primitive)
      [] value.shape = "Array" ->
            <<LEFT_SQUARE_BRACKET>>
            \o (IF value.array = <<>> THEN <<>>
                ELSE IF alt
                     THEN <<LF>> \o PadFrom(InlineArrayAlternate(value.array, 1), 1, TRUE)
                     ELSE InlineArrayCompact(value.array, 1))
            \o <<RIGHT_SQUARE_BRACKET>>
      [] value.shape = "Table" ->
            <<LEFT_CURLY_BRACKET>>
            \o (IF value.table = <<>> THEN <<>>
                ELSE <<SPACE>> \o InlineTableItems(value.table, 1, alt) \o <<SPACE>>)
            \o <<RIGHT_CURLY_BRACKET>>

\* the shapes rendered inline: values over one key, with arrays in arrays
InlineUniverse ==
    [keys |-> {KeyA}, primitives |-> {"true"}, comments |-> {<<>>},
     nested_arrays |-> TRUE]

\* the comments of the items of a value rendered inline
InlineComments ==
    {<<>>, <<Comment("Pre", "c")>>, <<Comment("Post", "v")>>,
     <<Comment("Pre", "c"), Comment("Post", "v"), Comment("Pre", "h")>>}

\* format!("{}", Inline::new(value)) and format!("{:#}", Inline::new(value))
InitInline ==
    /\ pc = "inline"
    /\ EscIdle
    /\ MergeIdle
    /\ BuildIdle
    /\ QuoteIdle
    /\ SegmentIdle
    /\ IterIdle
    /\ LET values == ValuesBySize(MaxInlineNodes, InlineUniverse)
       IN  \E n \in 0..MaxInlineNodes : \E v \in values[n + 1] :
              \E cs \in InlineComments :
                 document = Marked(v, cs, "true")
    /\ is_inline = None
    /\ alternate \in BOOLEAN
    /\ output = <<>>

InlineRender ==
    /\ pc = "inline"
    /\ output' = InlineFmt(document, alternate)
    /\ pc' = "inlined"
    /\ UNCHANGED <<document, is_inline, alternate>>
    /\ UNCHANGED <<escVars, mergeVars, buildVars, quoteVars, segmentVars, iterVars>>

NextInline == InlineRender

SpecInline == InitInline /\ [][NextInline]_vars

-----------------------------------------------------------------------------
(* format/independent.rs, continued: what Leaf, Independent and Branch     *)
(* write.                                                                  *)

\* the lines written: writeln!(f), Display of Kind::Pre ("#comment" lines),
\* a header with the Display of Kind::Post behind it, and a leaf with the
\* Display of Kind::Post behind it
BlankLine == [line |-> "Blank"]
CommentLines(texts) == [i \in 1..Len(texts) |-> [line |-> "Comment", comment |-> texts[i]]]
HeaderLine(header, texts) ==
    [line |-> "Header", kind |-> header.kind, key |-> header.inner, post |-> texts,
     text |-> (IF header.kind = "ArrayOfTables"
               THEN <<LEFT_SQUARE_BRACKET, LEFT_SQUARE_BRACKET>>
               ELSE <<LEFT_SQUARE_BRACKET>>)
              \o KeyFmt([i \in 1..Len(header.inner) |-> SegmentNew(header.inner[i])])
              \o (IF header.kind = "ArrayOfTables"
                  THEN <<RIGHT_SQUARE_BRACKET, RIGHT_SQUARE_BRACKET>>
                  ELSE <<RIGHT_SQUARE_BRACKET>>)
              \o PostFmt(texts)]
KeyValueLine(segment, value, texts, alt) ==
    [line |-> "KeyValue", segment |-> segment, value |-> value, post |-> texts,
     text |-> SegmentFmt(SegmentNew(segment)) \o <<SPACE, EQUALS_SIGN, SPACE>>
              \o InlineFmt(value, alt) \o PostFmt(texts)]

\* an array of tables only, the empty array too
is_all_tables(array) ==
    \A i \in 1..Len(array) : array[i].value.shape = "Table"

\* Array::is_array_of_tables, Array::as_array_of_tables
is_array_of_tables(array) ==
    array # <<>> /\ \A i \in 1..Len(array) : array[i].value.shape = "Table"

as_array_of_tables(array) ==
    [i \in 1..Len(array) |-> <<array[i].comments, array[i].value.table>>]

Leaf(cs, segment, value) == [comments |-> cs, segment |-> segment, value |-> value]

Branch(parent, cs, segment, value) ==
    [parent |-> parent, comments |-> cs, segment |-> segment, value |-> value]

\* Branch::key
RECURSIVE BranchKey(_)
BranchKey(branch) ==
    IF branch.parent.tag = "Some"
    THEN Append(BranchKey(branch.parent.v), branch.segment)
    ELSE <<branch.segment>>

\* Branch::header
BranchHeader(branch) ==
    IF branch.value.kind = "ArrayOfTables"
    THEN KindArrayOfTables(BranchKey(branch))
    ELSE KindTable(BranchKey(branch))

\* Table::partition: the leafs and the branches of a table, each in the
\* table's order
partition(table, branch, f) ==
    LET either(i) ==
            LET segment == table[i].segment
                cs == table[i].item.comments
                value == table[i].item.value
                key == IF branch.tag = "Some"
                       THEN Append(BranchKey(branch.v), segment)
                       ELSE <<segment>>
            IN  IF /\ value.shape = "Array"
                   /\ is_array_of_tables(value.array)
                   /\ ~IsInline(f, key)
                THEN [side |-> "Right",
                      v |-> Branch(branch, cs, segment,
                                   KindArrayOfTables(as_array_of_tables(value.array)))]
                ELSE IF value.shape = "Table" /\ ~IsInline(f, key)
                THEN [side |-> "Right",
                      v |-> Branch(branch, cs, segment, KindTable(value.table))]
                ELSE [side |-> "Left", v |-> Leaf(cs, segment, value)]
        all == [i \in 1..Len(table) |-> either(i)]
        left == SelectSeq(all, LAMBDA e : e.side = "Left")
        right == SelectSeq(all, LAMBDA e : e.side = "Right")
    IN  << [i \in 1..Len(left) |-> left[i].v],
           [i \in 1..Len(right) |-> right[i].v] >>

\* Display for Leaf
LeafFmt(leaf, alt) ==
    Append(CommentLines(pre(leaf.comments)),
           KeyValueLine(leaf.segment, leaf.value, post(leaf.comments), alt))

\* the header condition that writes the header of every branch
header_is_written_always(leafs, branches) == TRUE

\* the header condition of Independent::fmt
header_is_written(leafs, branches) == leafs # <<>> \/ branches = <<>>

RECURSIVE IndependentFmt(_, _, _, _, _)
RECURSIVE BranchFmt(_, _, _)
RECURSIVE LeafsFmt(_, _, _)
RECURSIVE BranchesFmt(_, _, _, _)
RECURSIVE ElementsFmt(_, _, _, _)

\* the leafs written from the last to the i-th
RECURSIVE LeafsFmtReversed(_, _, _)
LeafsFmtReversed(leafs, i, alt) ==
    IF i > Len(leafs) THEN <<>>
    ELSE LeafsFmtReversed(leafs, i + 1, alt) \o LeafFmt(leafs[i], alt)

\* for leaf in leafs { Display::fmt(&leaf, f) }
LeafsFmt(leafs, i, alt) ==
    IF i > Len(leafs) THEN <<>>
    ELSE LeafFmt(leafs[i], alt) \o LeafsFmt(leafs, i + 1, alt)

\* for branch in branches { Display::fmt(&branch, f) }
BranchesFmt(branches, i, f, alt) ==
    IF i > Len(branches) THEN <<>>
    ELSE BranchFmt(branches[i], f, alt) \o BranchesFmt(branches, i + 1, f, alt)

\* Display for Independent; alt is f.alternate()
IndependentFmt(branch, cs, table, f, alt) ==
    LET p == partition(table, branch, f)
        leafs == p[1]
        branches == p[2]
        header ==
            IF branch.tag = "Some" /\ header_is_written(leafs, branches)
            THEN <<BlankLine>>
                 \o (IF cs.tag = "Some" THEN CommentLines(pre(cs.v)) ELSE <<>>)
                 \o <<HeaderLine(BranchHeader(branch.v),
                                 IF cs.tag = "Some" THEN post(cs.v) ELSE <<>>)>>
            ELSE <<>>
    IN  header \o LeafsFmt(leafs, 1, alt) \o BranchesFmt(branches, 1, f, alt)

\* Display for Branch, Kind::ArrayOfTables: one Independent per element
ElementsFmt(branch, i, f, alt) ==
    IF i > Len(branch.value.inner) THEN <<>>
    ELSE IndependentFmt(Some(branch), Some(branch.value.inner[i][1]),
                        branch.value.inner[i][2], f, alt)
         \o ElementsFmt(branch, i + 1, f, alt)

\* Display for Branch
BranchFmt(branch, f, alt) ==
    IF branch.value.kind = "ArrayOfTables"
    THEN ElementsFmt(branch, 1, f, alt)
    ELSE IndependentFmt(Some(branch), Some(branch.comments), branch.value.inner, f, alt)

\* the tables rendered: every table of at most MaxRenderNodes items over two
\* keys, with arrays of tables at any depth, whose items all carry the same
\* comments, and the tables {a: true, c: {ca: true}}, {c: {cc: {cca: true}}}
\* and one of leafs among table and array-of-tables branches
RenderUniverse ==
    [keys |-> {KeyA, KeyB}, primitives |-> {"true"}, comments |-> {<<>>},
     nested_arrays |-> TRUE]

RenderComments == {<<>>, <<Comment("Pre", "a"), Comment("Post", "b")>>}

KeyCA == <<99, 97>>
KeyCC == <<99, 99>>
KeyCCA == <<99, 99, 97>>

LeafAndBranchTable ==
    << Entry(KeyA, ItemFrom(Primitive("true"))),
       Entry(KeyC, ItemFrom(Table(<<Entry(KeyCA, ItemFrom(Primitive("true")))>>))) >>

NestedBranchTable ==
    << Entry(KeyC, ItemFrom(Table(
         <<Entry(KeyCC, ItemFrom(Table(
              <<Entry(KeyCCA, ItemFrom(Primitive("true")))>>)))>>))) >>

KeyE == <<101>>
KeyDA == <<100, 97>>
KeyDB == <<100, 98>>

\* {c: {ca: true}, a: true, d: [{da: true}, {db: true}], b: [true], e: {}}
MixedTable ==
    << Entry(KeyC, ItemFrom(Table(<<Entry(KeyCA, ItemFrom(Primitive("true")))>>))),
       Entry(KeyA, ItemFrom(Primitive("true"))),
       Entry(KeyD, ItemFrom(Array(
          << ItemFrom(Table(<<Entry(KeyDA, ItemFrom(Primitive("true")))>>)),
             ItemFrom(Table(<<Entry(KeyDB, ItemFrom(Primitive("true")))>>)) >>))),
       Entry(KeyB, ItemFrom(Array(<<ItemFrom(Primitive("true"))>>))),
       Entry(KeyE, ItemFrom(Table(<<>>))) >>

InitRender ==
    /\ pc = "render"
    /\ EscIdle
    /\ MergeIdle
    /\ BuildIdle
    /\ QuoteIdle
    /\ SegmentIdle
    /\ IterIdle
    /\ \/ document \in {LeafAndBranchTable, NestedBranchTable, MixedTable}
       \/ LET tables == TablesBySize(MaxRenderNodes, RenderUniverse)
          IN  \E n \in 0..MaxRenderNodes : \E t \in tables[n + 1] :
                 \E cs \in RenderComments :
                    document = Marked(Table(t), cs, "true").table
    /\ is_inline \in IsInlineChoices
    /\ alternate \in BOOLEAN
    /\ output = <<>>

\* format!("{}", Independent::new(document, is_inline)), or "{:#}"
Render ==
    /\ pc = "render"
    /\ output' = IndependentFmt(None, None, document, is_inline, alternate)
    /\ pc' = "rendered"
    /\ UNCHANGED <<document, is_inline, alternate>>
    /\ UNCHANGED <<escVars, mergeVars, buildVars, quoteVars, segmentVars, iterVars>>

NextRender == Render

SpecRender == InitRender /\ [][NextRender]_vars

-----------------------------------------------------------------------------
(* Claims about escape and unescape. *)

\* a backslash directly followed by LF occurs in the text
HasBackslashLf(str) ==
    \E i \in 1..(Len(str) - 1) : str[i] = BACKSLASH /\ str[i + 1] = LF

\* C1: for every text and either mode, unescape of the escaped text yields
\* no error, and once both collections are complete the characters yielded
\* are the text itself; until then they are a prefix of it.
C1_RoundTrip ==
    /\ error = None
    /\ pc = "unescape" =>
          Len(collected) <= Len(input) /\ collected = SubSeq(input, 1, Len(collected))
    /\ pc = "done" => collected = input

\* C1 witness: a MultiLine round trip of a text of full length that holds a
\* backslash directly followed by LF, and a control character, is complete
C1_Witness ==
    /\ pc = "done"
    /\ mode = "MultiLine"
    /\ Len(input) = MaxLen
    /\ HasBackslashLf(input)
    /\ \E i \in 1..Len(input) : input[i] = DEL
    /\ collected = input

-----------------------------------------------------------------------------
(* Claims about merge. *)

\* the entries of table s whose key table t does not hold, in s's order
RECURSIVE OnlyIn(_, _)
OnlyIn(s, t) ==
    IF s = <<>> THEN <<>>
    ELSE IF IndexOf(t, Head(s).segment) = 0
         THEN <<Head(s)>> \o OnlyIn(Tail(s), t)
         ELSE OnlyIn(Tail(s), t)

\* table r is the merge of table s into table t, as the claim describes it
RECURSIVE IsTableMerge(_, _, _)
IsTableMerge(t, s, r) ==
    /\ Len(r) = Len(t) + Len(OnlyIn(s, t))
    /\ SubSeq(r, Len(t) + 1, Len(r)) = OnlyIn(s, t)
    /\ \A i \in 1..Len(t) :
          LET j == IndexOf(s, t[i].segment)
              tv == t[i].item.value
          IN  /\ r[i].segment = t[i].segment
              /\ IF j = 0 THEN r[i].item = t[i].item
                 ELSE LET sv == s[j].item.value
                          rv == r[i].item.value
                      IN  /\ r[i].item.comments = t[i].item.comments \o s[j].item.comments
                          /\ rv.shape = tv.shape
                          /\ tv.shape = "Table" =>
                                sv.shape = "Table" /\ IsTableMerge(tv.table, sv.table, rv.table)
                          /\ tv.shape = "Array" =>
                                sv.shape = "Array" /\ rv.array = tv.array \o sv.array
                          /\ tv.shape # "Primitive"

\* C5: after a merge of two tables that did not panic, the target's keys are
\* its original keys followed by the keys only the incoming table holds, in
\* the incoming order; a key of both keeps its place, holds the recursive
\* merge of the two values and the target's comments followed by the
\* incoming ones; a key of the target alone keeps its item.
C5_TableMergeResult ==
    (/\ pc # "merge_ab"
     /\ a_val.shape = "Table"
     /\ b_val.shape = "Table"
     /\ ab.panic = "")
        => /\ ab.value.shape = "Table"
           /\ IsTableMerge(a_val.table, b_val.table, ab.value.table)

\* C5 witness: a merge without panic of two commented tables where the
\* incoming table holds first a new key and then a key of the target, whose
\* values are tables that are merged in turn
C5_Witness ==
    /\ pc # "merge_ab"
    /\ ab.panic = ""
    /\ a_val = Table(<<Entry(KeyA, Item(<<Comment("Pre", "a")>>, Table(<<>>)))>>)
    /\ b_val.shape = "Table"
    /\ Segments(b_val.table) = <<KeyB, KeyA>>
    /\ b_val.table[2].item.comments = <<Comment("Post", "b")>>
    /\ b_val.table[2].item.value.shape = "Table"
    /\ Len(b_val.table[2].item.value.table) = 1
    /\ Segments(ab.value.table) = <<KeyA, KeyB>>

\* the panics of the structural conflicts between target t and incoming s:
\* at the top level or at a key of both reached through merged tables
RECURSIVE Conflicts(_, _)
Conflicts(t, s) ==
    CASE t.shape = "Primitive" -> {PanicPrimitive}
      [] t.shape = "Array" -> IF s.shape = "Array" THEN {} ELSE {PanicArray}
      [] t.shape = "Table" ->
            IF s.shape # "Table" THEN {PanicTable}
            ELSE UNION {Conflicts(t.table[i].item.value,
                                  s.table[IndexOf(s.table, t.table[i].segment)].item.value) :
                        i \in {k \in 1..Len(t.table) :
                                 IndexOf(s.table, t.table[k].segment) # 0}}

C6_ArrayMergeConcat ==
    /\ ab # None => ab = Merged(Array(a_val.array \o b_val.array))
    /\ bc # None => bc = Merged(Array(b_val.array \o c_val.array))
    /\ ab_c # None => ab_c = Merged(Array(a_val.array \o b_val.array \o c_val.array))
    /\ a_bc # None => a_bc = Merged(Array(a_val.array \o b_val.array \o c_val.array))
    /\ pc = "merged" => ab_c # None /\ a_bc = ab_c

\* C6 witness: both groupings of three non-empty arrays have been merged
C6_Witness ==
    /\ pc = "merged"
    /\ a_val.array # <<>>
    /\ b_val.array # <<>>
    /\ c_val.array # <<>>
    /\ a_bc = ab_c
    /\ Len(ab_c.value.array) >= 3

-----------------------------------------------------------------------------
(* Claims about the document builder, stated over the lines it was fed.    *)

IsHeader(i) == lines[i].data.tag = "Header"
IsTableHeader(i) == IsHeader(i) /\ lines[i].data.key.kind = "Table"
IsArrayHeader(i) == IsHeader(i) /\ lines[i].data.key.kind = "ArrayOfTables"
IsKeyValue(i) == lines[i].data.tag = "KeyValue"

\* the logical text of the segments of a key
TextOf(key) == [i \in 1..Len(key) |-> key[i].text]

\* the key of the header of line i, as text
HeaderText(i) == TextOf(lines[i].data.key.inner)

\* the comment of line i, as a list
MetaOf(i) == IF lines[i].meta.tag = "Some" THEN <<lines[i].meta.v>> ELSE <<>>

\* the comments of the lines without data that directly precede line i
RECURSIVE PendingBefore(_)
PendingBefore(i) ==
    IF i = 1 \/ lines[i - 1].data.tag # "None" THEN <<>>
    ELSE PendingBefore(i - 1) \o MetaOf(i - 1)

\* the comments attached to the data line i
Attached(i) == PendingBefore(i) \o MetaOf(i)

\* the table of the declarations from line i up to the next header, added
\* to the table t
RECURSIVE BlockTable(_, _)
BlockTable(i, t) ==
    IF i > Len(lines) \/ IsHeader(i) THEN t
    ELSE IF IsKeyValue(i)
    THEN BlockTable(i + 1,
             TableMerge(t, wrap(lines[i].data.key,
                                Item(Attached(i), lines[i].data.value))).value)
    ELSE BlockTable(i + 1, t)

\* the item at a path of key texts below a table, if there is one
RECURSIVE Lookup(_, _)
Lookup(table, path) ==
    LET at == IndexOf(table, path[1])
    IN  IF at = 0 THEN None
        ELSE IF Len(path) = 1 THEN Some(table[at].item)
        ELSE IF table[at].item.value.shape # "Table" THEN None
        ELSE Lookup(table[at].item.value.table, Tail(path))

\* the table that holds the item at the end of a chain of one-entry tables
RECURSIVE Chain(_, _)
Chain(path, item) ==
    IF Len(path) = 1 THEN <<Entry(path[1], item)>>
    ELSE <<Entry(path[1], Item(<<>>, Table(Chain(Tail(path), item))))>>

\* the lines are a Table header p with its KeyValue lines and then, at
\* line j, a Table header p.q with its KeyValue lines
CrossHeader(j) ==
    /\ Len(lines) >= 2
    /\ j \in 2..Len(lines)
    /\ IsTableHeader(1)
    /\ IsTableHeader(j)
    /\ Len(HeaderText(j)) = Len(HeaderText(1)) + 1
    /\ SubSeq(HeaderText(j), 1, Len(HeaderText(1))) = HeaderText(1)
    /\ \A i \in 2..Len(lines) : i # j => IsKeyValue(i)
    /\ IndexOf(BlockTable(2, <<>>), HeaderText(j)[Len(HeaderText(j))]) = 0

CrossHeaderScenario ==
    << Line(Header(KindTable(<<SegA>>)), None),
       Line(KeyValue(<<SegB>>, Primitive("true")), None),
       Line(Header(KindTable(<<SegA, SegC>>)), None),
       Line(KeyValue(<<SegD>>, Primitive("true")), None) >>

\* {a: {b: true, c: {d: true}}}
CrossHeaderTree ==
    << Entry(KeyA, Item(<<>>, Table(
        << Entry(KeyB, Item(<<>>, Primitive("true"))),
           Entry(KeyC, Item(<<>>, Table(
               << Entry(KeyD, Item(<<>>, Primitive("true"))) >>))) >>))) >>

\* C2: when the lines are a Table header p with its KeyValue lines followed
\* by a Table header p.q with its KeyValue lines, the tree built holds at
\* p one table of the first block's entries followed by the entry q whose
\* value is the table of the second block's entries; the lines [a], b =
\* true, [a.c], d = true build exactly {a: {b: true, c: {d: true}}}.
C2_CrossHeaderAccumulation ==
    /\ pc = "built" =>
         \A j \in 1..Len(lines) :
            CrossHeader(j) =>
               LET q == HeaderText(j)[Len(HeaderText(j))]
                   second == Item(Attached(j), Table(BlockTable(j + 1, <<>>)))
                   first == Item(Attached(1),
                                 Table(Append(BlockTable(2, <<>>), Entry(q, second))))
               IN  root.value = Chain(HeaderText(1), first)
    /\ (pc \in {"built", "panicked"} /\ lines = CrossHeaderScenario) =>
          (pc = "built" /\ root.value = CrossHeaderTree)

C2_Witness ==
    /\ pc = "built"
    /\ lines = CrossHeaderScenario
    /\ CrossHeader(3)

\* the lines of the ArrayOfTables headers whose key has the text k
ArrayHeaders(k) == {h \in 1..Len(lines) : IsArrayHeader(h) /\ HeaderText(h) = k}

\* the i-th smallest element of a set of numbers
Nth(S, i) == CHOOSE h \in S : Cardinality({g \in S : g < h}) = i - 1

\* C3: when the lines hold n >= 1 ArrayOfTables headers of one key k, the
\* tree built holds at k an Array of n items in the order of the lines;
\* the value of the i-th item is the table of the declarations of the i-th
\* block, its comments are the comments attached to the i-th header line,
\* and the item that holds the array has no comments.
C3_ArrayOfTablesAccumulation ==
    pc = "built" =>
      \A h0 \in 1..Len(lines) :
         IsArrayHeader(h0) =>
            LET k == HeaderText(h0)
                S == ArrayHeaders(k)
                found == Lookup(root.value, k)
            IN  /\ found.tag = "Some"
                /\ found.v.comments = <<>>
                /\ found.v.value.shape = "Array"
                /\ Len(found.v.value.array) = Cardinality(S)
                /\ \A i \in 1..Cardinality(S) :
                      LET h == Nth(S, i)
                          element == found.v.value.array[i]
                      IN  /\ element.value = Table(BlockTable(h + 1, <<>>))
                          /\ element.comments = Attached(h)

C3_Witness ==
    /\ pc = "built"
    /\ \E h1, h2, h3 \in 1..Len(lines) :
          /\ h1 < h2 /\ h2 < h3
          /\ IsArrayHeader(h1) /\ IsArrayHeader(h3)
          /\ HeaderText(h1) = HeaderText(h3)
          /\ IsTableHeader(h2)
          /\ Attached(h1) # <<>>
          /\ Attached(h3) = <<>>
    /\ Len(Lookup(root.value, <<KeyB>>).v.value.array) = 2

\* the path a header line declares: its key and, for an ArrayOfTables
\* header, the position of its element
HeaderPath(h) ==
    [i \in 1..Len(HeaderText(h)) |-> [key |-> HeaderText(h)[i]]]
    \o (IF IsArrayHeader(h)
        THEN <<[index |-> Cardinality({g \in ArrayHeaders(HeaderText(h)) : g <= h})]>>
        ELSE <<>>)

\* the path of the table that the declarations of line i go to
Context(i) ==
    LET hs == {h \in 1..(i - 1) : IsHeader(h)}
    IN  IF hs = {} THEN <<>>
        ELSE HeaderPath(CHOOSE h \in hs : \A g \in hs : g <= h)

\* the path that line i declares, <<>> for a line without data
Declared(i) ==
    IF IsHeader(i) THEN HeaderPath(i)
    ELSE IF IsKeyValue(i)
    THEN Context(i) \o [j \in 1..Len(lines[i].data.key) |->
                            [key |-> lines[i].data.key[j].text]]
    ELSE <<>>

\* the components declared directly below the path P, each once, in the
\* order of the lines that first declare them
RECURSIVE FirstDeclared(_, _, _)
FirstDeclared(P, i, seen) ==
    IF i > Len(lines) THEN seen
    ELSE LET d == Declared(i)
         IN  IF /\ Len(d) > Len(P)
                /\ SubSeq(d, 1, Len(P)) = P
                /\ \A j \in 1..Len(seen) : seen[j] # d[Len(P) + 1]
             THEN FirstDeclared(P, i + 1, Append(seen, d[Len(P) + 1]))
             ELSE FirstDeclared(P, i + 1, seen)

\* every table at or below the value at path P has its keys in the order
\* of their first declaration
RECURSIVE KeysInDeclarationOrder(_, _)
KeysInDeclarationOrder(value, P) ==
    CASE value.shape = "Table" ->
            /\ [i \in 1..Len(value.table) |-> [key |-> value.table[i].segment]]
                 = FirstDeclared(P, 1, <<>>)
            /\ \A i \in 1..Len(value.table) :
                  KeysInDeclarationOrder(value.table[i].item.value,
                      Append(P, [key |-> value.table[i].segment]))
      [] value.shape = "Array" ->
            \A i \in 1..Len(value.array) :
               KeysInDeclarationOrder(value.array[i].value,
                                      Append(P, [index |-> i]))
      [] OTHER -> TRUE

\* C4: in a tree built without a panic, the keys of the root table and of
\* every nested table are in the order in which the lines first declare
\* them, through a KeyValue key or a Header key.
C4_FirstDeclarationOrder ==
    pc = "built" => KeysInDeclarationOrder(Table(root.value), <<>>)

C4_Witness ==
    /\ pc = "built"
    /\ \E i, j, k \in 1..Len(lines) :
          /\ i < j /\ j < k
          /\ Declared(i) # <<>> /\ Declared(j) # <<>> /\ Declared(k) # <<>>
          /\ Declared(i)[1] = Declared(k)[1]
          /\ Declared(i)[1] # Declared(j)[1]
    /\ Len(root.value) = 2

\* no table at or below a value has two entries of one key
RECURSIVE NoDuplicateKeys(_)
NoDuplicateKeys(value) ==
    CASE value.shape = "Table" ->
            /\ \A i, j \in 1..Len(value.table) :
                  i # j => value.table[i].segment # value.table[j].segment
            /\ \A i \in 1..Len(value.table) :
                  NoDuplicateKeys(value.table[i].item.value)
      [] value.shape = "Array" ->
            \A i \in 1..Len(value.array) : NoDuplicateKeys(value.array[i].value)
      [] OTHER -> TRUE

\* every table at or below the value at path P has one entry for each text
\* declared below P, whatever the quoting of the segments that declare it
RECURSIVE OneEntryPerText(_, _)
OneEntryPerText(value, P) ==
    CASE value.shape = "Table" ->
            LET declared == FirstDeclared(P, 1, <<>>)
            IN  /\ Len(value.table) = Len(declared)
                /\ \A i \in 1..Len(declared) :
                      \E j \in 1..Len(value.table) :
                         [key |-> value.table[j].segment] = declared[i]
                /\ \A i \in 1..Len(value.table) :
                      OneEntryPerText(value.table[i].item.value,
                          Append(P, [key |-> value.table[i].segment]))
      [] value.shape = "Array" ->
            \A i \in 1..Len(value.array) :
               OneEntryPerText(value.array[i].value, Append(P, [index |-> i]))
      [] OTHER -> TRUE

\* the tables the builder holds
StateTables ==
    IF state.tag = "Unheaded" THEN {state.table}
    ELSE {state.inner_table, state.outer_table}

\* C8: after every line no table the builder holds, at any depth, has two
\* entries of one key text, and the tree built has exactly one entry per
\* declared text: segments of the same text and of different quoting
\* address the same entry.
C8_NoDuplicateKeys ==
    /\ \A t \in StateTables : NoDuplicateKeys(Table(t))
    /\ pc = "built" =>
          /\ NoDuplicateKeys(Table(root.value))
          /\ OneEntryPerText(Table(root.value), <<>>)

C8_Witness ==
    /\ pc = "built"
    /\ \E i, j \in 1..Len(lines) :
          /\ IsTableHeader(i) /\ IsTableHeader(j)
          /\ lines[i].data.key.inner = <<SegA>>
          /\ lines[j].data.key.inner = <<SegQuotedA>>
    /\ \E i \in 1..Len(lines) : IsKeyValue(i)
    /\ Len(root.value) = 1
    /\ Len(root.value[1].item.value.table) >= 1

-----------------------------------------------------------------------------
(* Claims about the independent renderer, stated over the table rendered.  *)

\* the entry i of a table at the key path prefix is rendered as a branch
IsTableBranch(table, i, prefix, f) ==
    /\ table[i].item.value.shape = "Table"
    /\ ~IsInline(f, Append(prefix, table[i].segment))

IsArrayBranch(table, i, prefix, f) ==
    /\ table[i].item.value.shape = "Array"
    /\ table[i].item.value.array # <<>>
    /\ \A j \in 1..Len(table[i].item.value.array) :
          table[i].item.value.array[j].value.shape = "Table"
    /\ ~IsInline(f, Append(prefix, table[i].segment))

\* the tables below a table that are rendered as a table branch or as an
\* element of an array-of-tables branch: the kind, the key path, the place
\* in the tree and the table of each
RECURSIVE BranchTables(_, _, _, _)
BranchTables(table, prefix, at, f) ==
    UNION {
        LET key == Append(prefix, table[i].segment)
            value == table[i].item.value
        IN  IF IsTableBranch(table, i, prefix, f)
            THEN {[kind |-> "Table", key |-> key, at |-> Append(at, i),
                   table |-> value.table]}
                 \cup BranchTables(value.table, key, Append(at, i), f)
            ELSE IF IsArrayBranch(table, i, prefix, f)
            THEN UNION {
                    {[kind |-> "ArrayOfTables", key |-> key,
                      at |-> at \o <<i, j>>, table |-> value.array[j].value.table]}
                    \cup BranchTables(value.array[j].value.table, key,
                                      at \o <<i, j>>, f)
                    : j \in 1..Len(value.array)}
            ELSE {}
        : i \in 1..Len(table)}

\* a branch table has no leaf of its own and at least one further branch
OnlyBranches(b, f) ==
    /\ b.table # <<>>
    /\ \A i \in 1..Len(b.table) :
          IsTableBranch(b.table, i, b.key, f) \/ IsArrayBranch(b.table, i, b.key, f)

\* the lines of the output that are the header of one kind and key
HeaderLinesOf(kind, key) ==
    {i \in 1..Len(output) :
        /\ output[i].line = "Header"
        /\ output[i].kind = kind
        /\ output[i].key = key}

\* the key paths of the headers written and of the branch tables
HeaderKeys ==
    {output[i].key : i \in {j \in 1..Len(output) : output[j].line = "Header"}}
    \cup {b.key : b \in BranchTables(document, <<>>, <<>>, is_inline)}

\* C9: the output has one header line [path] for each table branch at that
\* path that has a leaf of its own or is empty, and none for a table branch
\* that has no leaf and at least one further branch; {a: true, c: {ca:
\* true}} prints [c], and {c: {cc: {cca: true}}} prints [c.cc] and no [c].
C9_TableHeaderOmission ==
    pc = "rendered" =>
       /\ \A key \in HeaderKeys :
             Cardinality(HeaderLinesOf("Table", key)) =
                Cardinality({b \in BranchTables(document, <<>>, <<>>, is_inline) :
                                /\ b.kind = "Table"
                                /\ b.key = key
                                /\ ~OnlyBranches(b, is_inline)})
       /\ (document = LeafAndBranchTable /\ is_inline = "never") =>
             HeaderLinesOf("Table", <<KeyC>>) # {}
       /\ (document = NestedBranchTable /\ is_inline = "never") =>
             /\ HeaderLinesOf("Table", <<KeyC, KeyCC>>) # {}
             /\ HeaderLinesOf("Table", <<KeyC>>) = {}

C9_Witness ==
    /\ pc = "rendered"
    /\ is_inline = "never"
    /\ document = NestedBranchTable
    /\ \E b \in BranchTables(document, <<>>, <<>>, is_inline) :
          b.kind = "Table" /\ OnlyBranches(b, is_inline)
    /\ Cardinality(HeaderLinesOf("Table", <<KeyC, KeyCC>>)) = 1

\* C10: the output has one header line [[path]] for each element of each
\* array-of-tables branch at that path, whether the element is empty, has
\* leafs, or has only further branches.
C10_HeaderPerElement ==
    pc = "rendered" =>
       \A key \in HeaderKeys :
          Cardinality(HeaderLinesOf("ArrayOfTables", key)) =
             Cardinality({b \in BranchTables(document, <<>>, <<>>, is_inline) :
                             b.kind = "ArrayOfTables" /\ b.key = key})

\* what the renderer is to write for a table at a key path: a leaf event
\* for each leaf entry in the table's order, then for each branch entry in
\* the table's order a header event (one per element of an array of
\* tables) followed by all the events of that branch's table
RECURSIVE OrderedEvents(_, _, _)
RECURSIVE BranchEventsFrom(_, _, _, _)
RECURSIVE ElementEventsFrom(_, _, _, _)

OrderedEvents(table, prefix, f) ==
    LET leafs == SelectSeq([i \in 1..Len(table) |-> i],
                     LAMBDA i : /\ ~IsTableBranch(table, i, prefix, f)
                                /\ ~IsArrayBranch(table, i, prefix, f))
    IN  [k \in 1..Len(leafs) |-> [leaf |-> Append(prefix, table[leafs[k]].segment)]]
        \o BranchEventsFrom(table, prefix, f, 1)

BranchEventsFrom(table, prefix, f, i) ==
    IF i > Len(table) THEN <<>>
    ELSE LET key == Append(prefix, table[i].segment)
             value == table[i].item.value
         IN  (IF IsTableBranch(table, i, prefix, f)
              THEN <<[header |-> "Table", key |-> key]>>
                   \o OrderedEvents(value.table, key, f)
              ELSE IF IsArrayBranch(table, i, prefix, f)
              THEN ElementEventsFrom(value.array, key, f, 1)
              ELSE <<>>)
             \o BranchEventsFrom(table, prefix, f, i + 1)

ElementEventsFrom(array, key, f, j) ==
    IF j > Len(array) THEN <<>>
    ELSE <<[header |-> "ArrayOfTables", key |-> key]>>
         \o OrderedEvents(array[j].value.table, key, f)
         \o ElementEventsFrom(array, key, f, j + 1)

\* the key of the last header written before line i, <<>> if there is none
HeaderBefore(i) ==
    LET hs == {h \in 1..(i - 1) : output[h].line = "Header"}
    IN  IF hs = {} THEN <<>>
        ELSE output[CHOOSE h \in hs : \A g \in hs : g <= h].key

\* the events of the output: a leaf event with the full key path for a
\* key = value line, a header event for a header line
OutputEvents ==
    LET at == SelectSeq([i \in 1..Len(output) |-> i],
                  LAMBDA i : output[i].line \in {"KeyValue", "Header"})
    IN  [k \in 1..Len(at) |->
            IF output[at[k]].line = "KeyValue"
            THEN [leaf |-> Append(HeaderBefore(at[k]), output[at[k]].segment)]
            ELSE [header |-> output[at[k]].kind, key |-> output[at[k]].key]]

\* the events o are the events e without some of its header events
RECURSIVE WithoutSomeHeaders(_, _)
WithoutSomeHeaders(o, e) ==
    IF e = <<>> THEN o = <<>>
    ELSE IF o # <<>> /\ Head(o) = Head(e) THEN WithoutSomeHeaders(Tail(o), Tail(e))
    ELSE "header" \in DOMAIN Head(e) /\ WithoutSomeHeaders(o, Tail(e))

\* C11: at every table level the leafs are written before the branches,
\* the leafs in the table's key order and the branches in the table's key
\* order, and all that a branch writes is contiguous: the key = value and
\* header lines of the output are, in order, the leafs and then the
\* branches of each level, with only header lines left out.
C11_LeafsBeforeBranches ==
    pc = "rendered" =>
       WithoutSomeHeaders(OutputEvents, OrderedEvents(document, <<>>, is_inline))

C11_Witness ==
    /\ pc = "rendered"
    /\ document = MixedTable
    /\ is_inline = "never"
    /\ OutputEvents =
          << [leaf |-> <<KeyA>>], [leaf |-> <<KeyB>>],
             [header |-> "Table", key |-> <<KeyC>>], [leaf |-> <<KeyC, KeyCA>>],
             [header |-> "ArrayOfTables", key |-> <<KeyD>>], [leaf |-> <<KeyD, KeyDA>>],
             [header |-> "ArrayOfTables", key |-> <<KeyD>>], [leaf |-> <<KeyD, KeyDB>>],
             [header |-> "Table", key |-> <<KeyE>>] >>

\* the tables whose entries the renderer partitions: the table rendered and
\* every branch table below it
RenderedLevels ==
    {[key |-> <<>>, at |-> <<>>, table |-> document]}
    \cup {[key |-> b.key, at |-> b.at, table |-> b.table] :
             b \in BranchTables(document, <<>>, <<>>, is_inline)}

\* the entries of the rendered levels, each with its key path P and whether
\* is_inline(P) is false and its value is a Table or a non-empty Array of
\* Tables only
RenderedEntries ==
    UNION {
        {[at |-> Append(l.at, i),
          key |-> Append(l.key, l.table[i].segment),
          value |-> l.table[i].item.value,
          comments |-> l.table[i].item.comments,
          post |-> post(l.table[i].item.comments),
          branch |-> /\ ~IsInline(is_inline, Append(l.key, l.table[i].segment))
                     /\ \/ l.table[i].item.value.shape = "Table"
                        \/ /\ l.table[i].item.value.shape = "Array"
                           /\ l.table[i].item.value.array # <<>>
                           /\ \A j \in 1..Len(l.table[i].item.value.array) :
                                 l.table[i].item.value.array[j].value.shape = "Table"]
         : i \in 1..Len(l.table)}
        : l \in RenderedLevels}

\* the key = value lines of the output, each with its full key path
KeyValueLinesAt(key, value) ==
    {i \in 1..Len(output) :
        /\ output[i].line = "KeyValue"
        /\ Append(HeaderBefore(i), output[i].segment) = key
        /\ output[i].value = value}

\* C12: an entry at the key path P is a branch exactly if is_inline(P) is
\* false and its value is a Table or a non-empty Array of Tables only;
\* every other entry is a leaf, written as one line "key = value" whose
\* value is the inline rendering of the entry's value, and a branch is
\* written as no such line.
C12_LeafOrBranch ==
    pc = "rendered" =>
       /\ \A e \in RenderedEntries :
             Cardinality(KeyValueLinesAt(e.key, e.value)) =
                Cardinality({d \in RenderedEntries :
                                d.key = e.key /\ d.value = e.value /\ ~d.branch})
       /\ \A i \in 1..Len(output) :
             output[i].line = "KeyValue" =>
                /\ \E e \in RenderedEntries :
                      /\ ~e.branch
                      /\ e.key = Append(HeaderBefore(i), output[i].segment)
                      /\ e.value = output[i].value
                /\ output[i].text =
                      SegmentFmt(SegmentNew(output[i].segment))
                      \o <<SPACE, EQUALS_SIGN, SPACE>>
                      \o InlineFmt(output[i].value, alternate)
                      \o PostFmt(output[i].post)

\* {a: {a: {}}} with is_inline true from two segments on: a is a branch and
\* the empty table a.a is the leaf "a = {}"
C12_Witness ==
    /\ pc = "rendered"
    /\ is_inline = "nested"
    /\ \E e \in RenderedEntries : e.branch /\ e.key = <<KeyA>>
    /\ \E e \in RenderedEntries :
          /\ ~e.branch
          /\ e.key = <<KeyA, KeyA>>
          /\ e.value = Table(<<>>)
          /\ \E i \in KeyValueLinesAt(e.key, e.value) :
                output[i].text = <<97, SPACE, EQUALS_SIGN, SPACE,
                                   LEFT_CURLY_BRACKET, RIGHT_CURLY_BRACKET>>

\* the items written as a leaf line, as a table branch or as an element of
\* an array-of-tables branch: the line each is written as and its comments
CommentedItems ==
    {[line |-> "KeyValue", kind |-> "", key |-> e.key, comments |-> e.comments]
        : e \in {d \in RenderedEntries : ~d.branch}}
    \cup {[line |-> "Header", kind |-> "Table", key |-> e.key, comments |-> e.comments]
            : e \in {d \in RenderedEntries : d.branch /\ d.value.shape = "Table"}}
    \cup UNION {
            {[line |-> "Header", kind |-> "ArrayOfTables", key |-> e.key,
              comments |-> e.value.array[j].comments] : j \in 1..Len(e.value.array)}
            : e \in {d \in RenderedEntries : d.branch /\ d.value.shape = "Array"}}

\* line i of the output is the key = value line or the header of the item,
\* with the item's Post comments on it and the item's Pre comments on the
\* lines before it
WrittenWithComments(item, i) ==
    /\ output[i].line = item.line
    /\ IF item.line = "Header"
       THEN output[i].kind = item.kind /\ output[i].key = item.key
       ELSE Append(HeaderBefore(i), output[i].segment) = item.key
    /\ output[i].post = post(item.comments)
    /\ i > Len(pre(item.comments))
    /\ \A k \in 1..Len(pre(item.comments)) :
          output[i - Len(pre(item.comments)) + k - 1] =
             [line |-> "Comment", comment |-> pre(item.comments)[k]]

\* C13: every comment of an item written as a leaf line, as a table branch
\* or as an element of an array-of-tables branch is in the output, the Pre
\* comments on the lines before the key or header and the Post comments on
\* its line.
C13_CommentsPreserved ==
    pc = "rendered" =>
       \A item \in CommentedItems :
          item.comments # <<>> =>
             \E i \in 1..Len(output) : WrittenWithComments(item, i)

-----------------------------------------------------------------------------
(* Claims about unescape, stated over one next() of the iterator: what it  *)
(* yields for the text that is left to read.                               *)

\* the length of a text in UTF-8 bytes
RECURSIVE ByteLen(_)
ByteLen(str) == IF str = <<>> THEN 0 ELSE len_utf8(Head(str)) + ByteLen(Tail(str))

\* the text without the ASCII whitespace it begins with
RECURSIVE WithoutLeadingWhitespace(_)
WithoutLeadingWhitespace(str) ==
    IF str # <<>> /\ Head(str) \in {SPACE, HT, LF, FF, CR}
    THEN WithoutLeadingWhitespace(Tail(str))
    ELSE str

\* the text without the line continuations it begins with, in MultiLine
RECURSIVE WithoutContinuations(_, _)
WithoutContinuations(str, m) ==
    IF m = "MultiLine" /\ Len(str) >= 2 /\ str[1] = BACKSLASH /\ str[2] = LF
    THEN WithoutContinuations(WithoutLeadingWhitespace(Tail(str)), m)
    ELSE str

\* the text the iterator has not read, the part of it behind the line
\* continuations it begins with, and the byte offset of that part in the
\* input
Rest == unescape.char_indices.str
Pending == WithoutContinuations(Rest, mode)
PendingOffset == ByteLen(input) - ByteLen(Pending)

\* the call yields the character c
Yields(c) ==
    /\ collected' = Append(collected, c)
    /\ error' = None
    /\ pc' = "unescape"

\* the call yields the error of a kind
YieldsError(kind) ==
    /\ collected' = collected
    /\ error'.kind = kind
    /\ pc' = "done"

LiteralStep ==
    (pc = "unescape" /\ Pending # <<>> /\ Head(Pending) # BACKSLASH) =>
       LET c == Head(Pending)
       IN  CASE c = HT -> Yields(c)
             [] c \in {LF, CR} ->
                   IF mode = "MultiLine" THEN Yields(c)
                   ELSE /\ YieldsError("EscapeOnlyChar")
                        /\ error'.span = Span(PendingOffset, PendingOffset + 1)
             [] (c \in 0..31 \/ c = DEL) /\ c \notin {HT, LF, CR} ->
                   /\ YieldsError("EscapeOnlyChar")
                   /\ error'.span = Span(PendingOffset, PendingOffset + 1)
             [] c = QUOTATION_MARK ->
                   IF mode = "MultiLine" THEN Yields(c)
                   ELSE /\ YieldsError("EscapeOnlyChar")
                        /\ error'.span = Span(PendingOffset, PendingOffset + 1)
             [] OTHER -> Yields(c)

\* C14: a character that is no backslash is yielded as it is, except that
\* LF and CR in SingleLine, every ASCII control character other than HT, LF
\* and CR in both modes, and the double quote in SingleLine yield
\* EscapeOnlyChar, whose span is [i, i+1) for the byte offset i of the
\* character in the input.
C14_LiteralCharacters == [][LiteralStep]_vars

\* a hexadecimal digit of either case, and its value
IsHexDigit(c) == c \in (48..57) \cup (65..70) \cup (97..102)
HexDigitValue(c) ==
    IF c \in 48..57 THEN c - 48 ELSE IF c \in 65..70 THEN c - 55 ELSE c - 87

\* the value of at most six hexadecimal digits
RECURSIVE HexValue(_)
HexValue(digits) ==
    IF digits = <<>> THEN 0
    ELSE 16 * HexValue(SubSeq(digits, 1, Len(digits) - 1))
         + HexDigitValue(digits[Len(digits)])

\* the low six of the digits, and whether their value exceeds 0x10FFFF
LowSix(digits) ==
    IF Len(digits) <= 6 THEN digits ELSE SubSeq(digits, Len(digits) - 5, Len(digits))
ExceedsMaxScalar(digits) ==
    \/ \E j \in 1..(Len(digits) - 6) : HexDigitValue(digits[j]) # 0
    \/ HexValue(LowSix(digits)) > 1114111

\* what is yielded for \u (n = 4) or \U (n = 8) with the text str behind it
UnicodeEscapeStep(str, n) ==
    LET bad == {j \in 1..n : j > Len(str) \/ ~IsHexDigit(str[j])}
        first == CHOOSE j \in bad : \A k \in bad : j <= k
        digits == SubSeq(str, 1, n)
    IN  IF bad # {}
        THEN IF first > Len(str)
             THEN YieldsError("IncompleteUnicodeEscape")
             ELSE YieldsError("InvalidCharInUnicodeEscape")
        ELSE IF ExceedsMaxScalar(digits)
        THEN YieldsError("OutOfRangeUnicodeEscape")
        ELSE IF HexValue(LowSix(digits)) \in 55296..57343
        THEN YieldsError("SurrogateUnicodeEscape")
        ELSE /\ Yields(HexValue(LowSix(digits)))
             /\ unescape'.char_indices.str = SubSeq(str, n + 1, Len(str))

EscapeStep ==
    (pc = "unescape" /\ Pending # <<>> /\ Head(Pending) = BACKSLASH) =>
       LET str == Tail(Pending)
       IN  IF str = <<>> THEN YieldsError("LoneSlash")
           ELSE CASE Head(str) = LOWER_T -> Yields(HT)
                  [] Head(str) = LOWER_N -> Yields(LF)
                  [] Head(str) = LOWER_R -> Yields(CR)
                  [] Head(str) = QUOTATION_MARK -> Yields(QUOTATION_MARK)
                  [] Head(str) = BACKSLASH -> Yields(BACKSLASH)
                  [] Head(str) = LOWER_U -> UnicodeEscapeStep(Tail(str), 4)
                  [] Head(str) = UPPER_U -> UnicodeEscapeStep(Tail(str), 8)
                  [] OTHER -> YieldsError("InvalidEscape")

\* C15: in both modes a backslash at the end of the input yields LoneSlash;
\* before t, n, r, the double quote or a backslash it yields HT, LF, CR,
\* the double quote or the backslash; \u reads four and \U eight
\* hexadecimal digits of either case and yields IncompleteUnicodeEscape if
\* the input ends first, InvalidCharInUnicodeEscape at the first character
\* that is no such digit, OutOfRangeUnicodeEscape for a value above
\* 0x10FFFF, SurrogateUnicodeEscape for one in 0xD800..0xDFFF and the
\* character of that code point otherwise; before any other character, b
\* and f too, it yields InvalidEscape.
C15_BackslashEscapes == [][EscapeStep]_vars

\* \U0010FfFf read as U+10FFFF, then \uD800 refused as a surrogate
C15_Witness ==
    /\ pc = "done"
    /\ input = <<BACKSLASH, UPPER_U, DIGIT_ZERO, DIGIT_ZERO, DIGIT_ONE, DIGIT_ZERO,
                 UPPER_F, LOWER_F, UPPER_F, LOWER_F,
                 BACKSLASH, LOWER_U, UPPER_D, DIGIT_EIGHT, DIGIT_ZERO, DIGIT_ZERO>>
    /\ collected = <<MAX_SCALAR>>
    /\ error # None
    /\ error.kind = "SurrogateUnicodeEscape"

\* what a next() of unescape on the text str in the mode m yields: the
\* character, the kind of the error, or the end
FirstItem(str, m) ==
    LET item == UnescapeNext(UnescapeNew(str, m)).item
    IN  CASE item.tag = "Ok" -> [tag |-> "Ok", c |-> item.c]
          [] item.tag = "Err" -> [tag |-> "Err", kind |-> item.kind]
          [] OTHER -> [tag |-> "None"]

\* the call yields that item
YieldsItem(item) ==
    CASE item.tag = "Ok" -> Yields(item.c)
      [] item.tag = "Err" -> YieldsError(item.kind)
      [] OTHER -> pc' = "done" /\ collected' = collected /\ error' = None

ContinuationStep ==
    (pc = "unescape" /\ Len(Rest) >= 2 /\ Rest[1] = BACKSLASH) =>
       IF Rest[2] = LF
       THEN IF mode = "MultiLine"
            THEN LET resumed == WithoutLeadingWhitespace(Tail(Rest))
                 IN  /\ YieldsItem(FirstItem(resumed, mode))
                     /\ resumed = <<>> => pc' = "done" /\ error' = None
                     /\ \E k \in 0..Len(resumed) :
                           unescape'.char_indices.str =
                              SubSeq(resumed, k + 1, Len(resumed))
            ELSE YieldsError("InvalidEscape")
       ELSE /\ mode = "MultiLine" => YieldsItem(FirstItem(Rest, "SingleLine"))
            /\ Rest[2] \in {CR, SPACE} => YieldsError("InvalidEscape")

\* C16: in MultiLine a backslash before a line feed yields no character:
\* the line feed and all the ASCII whitespace behind it (space, HT, LF, FF,
\* CR) are left out and the call yields what the text from the next other
\* byte on yields, or the end if there is none; in SingleLine a backslash
\* before a line feed yields InvalidEscape; in MultiLine a backslash before
\* anything else, CR and the space too, is the escape it is in SingleLine.
C16_LineContinuation == [][ContinuationStep]_vars

\* backslash, LF, space, HT, LF, FF, CR and then the letter a, read in
\* MultiLine as the letter a alone
C16_Witness ==
    /\ pc = "done"
    /\ mode = "MultiLine"
    /\ input = <<BACKSLASH, LF, SPACE, HT, LF, FF, CR, LOWER_A>>
    /\ collected = <<LOWER_A>>
    /\ error = None

\* the bytes of the input read so far, after the call
ReadAfter == ByteLen(input) - ByteLen(unescape'.char_indices.str)

SpanStep ==
    (pc = "unescape" /\ error' # None) =>
       error'.span = Span(PendingOffset, ReadAfter)

\* C17: the span of every error is the byte range, counted from the
\* beginning of the input, from the offending character or the backslash
\* of the offending escape through the last byte read for it, behind a
\* line continuation and for a character of several bytes too.
C17_ExactSpans == [][SpanStep]_vars

-----------------------------------------------------------------------------
(* Claims about escape, Flags and Quoted.                                  *)

\* the lowercase hexadecimal digit of d
LowerHexDigit(d) == IF d < 10 THEN 48 + d ELSE 87 + d

\* what escape is to write for the character c in the mode m
EscapedChar(c, m) ==
    CASE c = HT -> <<c>>
      [] c = LF -> IF m = "MultiLine" THEN <<c>> ELSE <<BACKSLASH, LOWER_N>>
      [] c = CR -> IF m = "MultiLine" THEN <<c>> ELSE <<BACKSLASH, LOWER_R>>
      [] (c \in 0..31 \/ c = DEL) /\ c \notin {HT, LF, CR} ->
            <<BACKSLASH, LOWER_U,
              LowerHexDigit(c \div 4096), LowerHexDigit((c \div 256) % 16),
              LowerHexDigit((c \div 16) % 16), LowerHexDigit(c % 16)>>
      [] c = QUOTATION_MARK ->
            IF m = "MultiLine" THEN <<c>> ELSE <<BACKSLASH, QUOTATION_MARK>>
      [] c = BACKSLASH -> <<BACKSLASH, BACKSLASH>>
      [] OTHER -> <<c>>

RECURSIVE EscapedText(_, _)
EscapedText(str, m) ==
    IF str = <<>> THEN <<>> ELSE EscapedChar(Head(str), m) \o EscapedText(Tail(str), m)

\* C18: escape writes HT as it is, LF and CR as they are in MultiLine and
\* as \n and \r in SingleLine, every other ASCII control character, U+007F
\* too, as \u and four lowercase hexadecimal digits, the double quote as
\* \" in SingleLine and as it is in MultiLine, the backslash as two
\* backslashes and every other character as it is; the output is what is
\* written for each character of the input, in the input's order.
C18_EscapePerCharacter ==
    pc \in {"unescape", "done"} => escaped = EscapedText(input, mode)

\* U+007F, the double quote and LF in SingleLine: \u007f, \" and \n
C18_Witness ==
    /\ pc = "unescape"
    /\ mode = "SingleLine"
    /\ input = <<DEL, QUOTATION_MARK, LF>>
    /\ escaped = <<BACKSLASH, LOWER_U, DIGIT_ZERO, DIGIT_ZERO, DIGIT_SEVEN, LOWER_F,
                   BACKSLASH, QUOTATION_MARK, BACKSLASH, LOWER_N>>

\* the four flags as predicates over all the characters of a text
SomeCharacter(str, P(_)) == \E i \in 1..Len(str) : P(str[i])

NeedsQuoting(c) ==
    c \notin (65..90) \cup (97..122) \cup (48..57) \cup {LOW_LINE, HYPHEN_MINUS}
IsNewline(c) == c \in {LF, CR}
NeedsEscape(c) == (c \in 0..31 \/ c = DEL) /\ c \notin {HT, LF, CR}
IsApostrophe(c) == c = APOSTROPHE

FlagsOver(str) ==
    [is_quoted |-> SomeCharacter(str, NeedsQuoting),
     has_lf_or_cr |-> SomeCharacter(str, IsNewline),
     has_escape |-> SomeCharacter(str, NeedsEscape),
     has_apostrophe |-> SomeCharacter(str, IsApostrophe)]

\* the texts that have the characters of a text in another order
Reorderings(str) ==
    {[i \in 1..Len(str) |-> str[f[i]]] :
        f \in {g \in [1..Len(str) -> 1..Len(str)] :
                  \A i, j \in 1..Len(str) : g[i] = g[j] => i = j}}

\* C19: Flags::parse of a text is the four predicates over all of its
\* characters: some character outside [A-Za-z0-9_-], some LF or CR, some
\* ASCII control character other than HT, LF and CR, some apostrophe; it is
\* the same for every order of the characters, also where the loop ends
\* before the last character, and all four are false for the empty text.
C19_FlagsParse ==
    pc = "new" =>
       /\ parsed = FlagsOver(raw)
       /\ \A other \in Reorderings(raw) : FlagsParse(other) = parsed
       /\ raw = <<>> => parsed = FlagsDefault

\* U+0000, LF and the apostrophe set all four flags, and the loop ends
\* with two characters unread
C19_Witness ==
    /\ pc = "new"
    /\ raw = AllFlagsEarly
    /\ parsed = [is_quoted |-> TRUE, has_lf_or_cr |-> TRUE, has_escape |-> TRUE,
                 has_apostrophe |-> TRUE]
    /\ FlagsParseFrom(raw, 4, FlagsDefault) # parsed

\* n copies of the character c
Copies(c, n) == [i \in 1..n |-> c]

\* C20: Quoted::new picks Double exactly if the text has an ASCII control
\* character other than HT, LF and CR or an apostrophe, and MultiLine
\* exactly if it has LF or CR, the one whatever the other; its Display is
\* the body between one (SingleLine) or three (MultiLine) copies of the
\* quote character on either side, the body being the text itself for
\* Single and escape(text, mode) for Double.
C20_QuotedNew ==
    pc = "shown" =>
       LET delimiter == Copies(IF quoted.quotes = "Double" THEN QUOTATION_MARK
                               ELSE APOSTROPHE,
                               IF quoted.mode = "MultiLine" THEN 3 ELSE 1)
       IN  /\ quoted.quotes \in {"Single", "Double"}
           /\ quoted.mode \in {"SingleLine", "MultiLine"}
           /\ quoted.quotes = "Double" <=>
                 SomeCharacter(raw, NeedsEscape) \/ SomeCharacter(raw, IsApostrophe)
           /\ quoted.mode = "MultiLine" <=> SomeCharacter(raw, IsNewline)
           /\ shown = delimiter
                      \o (IF quoted.quotes = "Double"
                          THEN EscapedText(raw, quoted.mode) ELSE raw)
                      \o delimiter

\* an apostrophe, LF and a backslash: three double quotes on either side of
\* the apostrophe, the LF and two backslashes
C20_Witness ==
    /\ pc = "shown"
    /\ raw = <<APOSTROPHE, LF, BACKSLASH>>
    /\ quoted.quotes = "Double"
    /\ quoted.mode = "MultiLine"
    /\ shown = <<QUOTATION_MARK, QUOTATION_MARK, QUOTATION_MARK,
                 APOSTROPHE, LF, BACKSLASH, BACKSLASH,
                 QUOTATION_MARK, QUOTATION_MARK, QUOTATION_MARK>>

\* what a segment of the text str is to be written as
SegmentText(str) ==
    IF ~SomeCharacter(str, NeedsQuoting) THEN str
    ELSE IF \/ SomeCharacter(str, IsNewline)
            \/ SomeCharacter(str, IsApostrophe)
            \/ SomeCharacter(str, NeedsEscape)
         THEN <<QUOTATION_MARK>> \o EscapedText(str, "SingleLine") \o <<QUOTATION_MARK>>
         ELSE <<APOSTROPHE>> \o str \o <<APOSTROPHE>>

\* C21: Segment::new of a text is Unquoted exactly if every character of
\* the text is in [A-Za-z0-9_-]; otherwise it is Quoted in SingleLine form,
\* in double quotes with the text escaped in SingleLine mode if the text
\* has LF, CR, an apostrophe or an ASCII control character other than HT,
\* and in single quotes with the text as it is otherwise; a Key is written
\* as what its segments are written as, joined by ".".
C21_SegmentNew ==
    pc = "key_shown" =>
       /\ Len(dotted) = 2
       /\ dotted[1].text = raw
       /\ dotted[1].variant = "Unquoted" <=> ~SomeCharacter(raw, NeedsQuoting)
       /\ dotted[1].variant # "Unquoted" =>
             /\ dotted[1].variant = "Quoted"
             /\ dotted[1].mode = "SingleLine"
             /\ dotted[1].quotes = "Double" <=>
                   \/ SomeCharacter(raw, IsNewline)
                   \/ SomeCharacter(raw, IsApostrophe)
                   \/ SomeCharacter(raw, NeedsEscape)
             /\ dotted[1].quotes # "Double" => dotted[1].quotes = "Single"
       /\ SegmentFmt(dotted[1]) = SegmentText(raw)
       /\ dotted_shown = SegmentText(raw) \o <<FULL_STOP>> \o SegmentText(Reversed(raw))

\* HT, a double quote and a backslash: in single quotes, as they are
C21_Witness ==
    /\ pc = "key_shown"
    /\ raw = <<HT, QUOTATION_MARK, BACKSLASH>>
    /\ dotted[1] = Quoted("SingleLine", "Single", raw)
    /\ dotted_shown = <<APOSTROPHE, HT, QUOTATION_MARK, BACKSLASH, APOSTROPHE, FULL_STOP,
                        APOSTROPHE, BACKSLASH, QUOTATION_MARK, HT, APOSTROPHE>>

\* C22: two Segments of the same text are equal and hash alike whatever
\* the quoting of either, and two Segments of different texts are unequal.
C22_SegmentEquality ==
    pc = "compared" =>
       /\ lhs.text = rhs.text => eq_result /\ hash_result
       /\ lhs.text # rhs.text => ~eq_result

-----------------------------------------------------------------------------
(* Claims about the comments the builder attaches.                         *)

\* the Item a table holds at a key path, from the i-th segment on, or None
RECURSIVE ItemAtFrom(_, _, _)
ItemAtFrom(table, key, i) ==
    LET at == IndexOf(table, into_inner(key[i]))
    IN  IF at = 0 THEN None
        ELSE IF i = Len(key) THEN Some(table[at].item)
        ELSE IF table[at].item.value.shape = "Table"
        THEN ItemAtFrom(table[at].item.value.table, key, i + 1)
        ELSE None

ItemAt(table, key) == ItemAtFrom(table, key, 1)

\* the comments of the Item a table holds at a key path, none if it holds
\* no Item there
CommentsAt(table, key) ==
    IF ItemAt(table, key).tag = "Some" THEN ItemAt(table, key).v.comments
    ELSE <<>>

\* the line the step takes
LineTaken == lines'[Len(lines')]

\* the pending comments and then the comment of the line the step takes
Buffer ==
    comments \o (IF LineTaken.meta.tag = "Some" THEN <<LineTaken.meta.v>> ELSE <<>>)

\* a line is taken and nothing panics
TakesLine == Len(lines') = Len(lines) + 1 /\ pc' = "build"

\* a line without data adds its comment to the pending ones
CommentLineStep ==
    TakesLine /\ LineTaken.data.tag = "None" =>
       comments' = Buffer /\ state' = state

\* a KeyValue line leaves the pending comments and its own on the Item at
\* its key path in the current table, and none on the tables above it
KeyValueLineStep ==
    TakesLine /\ LineTaken.data.tag = "KeyValue" =>
       LET key == LineTaken.data.key
           leaf == ItemAt(table_mut(state'), key)
       IN  /\ comments' = <<>>
           /\ leaf = Some(Item(Buffer, LineTaken.data.value))
           /\ \A i \in 1..(Len(key) - 1) :
                 LET above == ItemAt(table_mut(state'), SubSeq(key, 1, i))
                 IN  above.tag = "Some" /\ above.v.comments = <<>>

\* a Header line makes the pending comments and its own the comments of the
\* header
HeaderLineStep ==
    TakesLine /\ LineTaken.data.tag = "Header" =>
       /\ comments' = <<>>
       /\ state'.tag = "Headed"
       /\ state'.comments = Buffer
       /\ state'.key = LineTaken.data.key

\* the table a Headed state is resolved into by the step, if it is
Resolved ==
    IF state.tag = "Headed" /\ pc = "build" /\ pc' = "build"
          /\ Len(lines') = Len(lines) + 1 /\ LineTaken.data.tag = "Header"
    THEN Some(state'.outer_table)
    ELSE IF state.tag = "Headed" /\ pc = "build" /\ pc' = "built"
    THEN Some(root'.value)
    ELSE None

\* a header resolved leaves its comments on the Item of its table: the Item
\* at the key of a Table header, after the comments that Item had, and the
\* last element of the array at the key of an ArrayOfTables header
ResolveStep ==
    Resolved.tag = "Some" =>
       LET key == state.key.inner
           before == ItemAt(state.outer_table, key)
           after == ItemAt(Resolved.v, key)
       IN  /\ after.tag = "Some"
           /\ IF state.key.kind = "ArrayOfTables"
              THEN /\ after.v.value.shape = "Array"
                   /\ after.v.value.array[Len(after.v.value.array)] =
                         Item(state.comments, Table(state.inner_table))
                   /\ after.v.comments = CommentsAt(state.outer_table, key)
              ELSE /\ after.v.value.shape = "Table"
                   /\ after.v.comments =
                         CommentsAt(state.outer_table, key) \o state.comments

AttachStep ==
    CommentLineStep /\ KeyValueLineStep /\ HeaderLineStep /\ ResolveStep

\* C23: the comments of the lines without data are kept in the order of the
\* lines; the next Header or KeyValue line takes all of them and then its
\* own comment and leaves none pending; those of a KeyValue line are the
\* comments of the Item at its full key path and the tables above it have
\* none; those of a Header line are the comments of the Item of the
\* header's table, the element of the array for an ArrayOfTables header.
C23_CommentAttachment == [][AttachStep]_vars

IsCommentLine(i) == lines[i].data.tag = "None" /\ lines[i].meta.tag = "Some"

C23_Witness ==
    /\ pc = "built"
    /\ Len(lines) = 4
    /\ IsCommentLine(1)
    /\ IsKeyValue(2) /\ lines[2].data.key = <<SegA, SegB>>
    /\ IsCommentLine(3)
    /\ lines[4].data.tag = "Header"
    /\ lines[4].data.key.kind = "ArrayOfTables"
    /\ lines[4].meta.tag = "Some"
    /\ CommentsAt(root.value, <<SegA, SegB>>) = <<lines[1].meta.v>>
    /\ ItemAt(root.value, <<SegB>>).v.value.array[1].comments =
          <<lines[3].meta.v, lines[4].meta.v>>

-----------------------------------------------------------------------------
(* Claims about what a line leaves alone in the Headed state.              *)

\* in the Headed state a KeyValue line changes inner_table and the pending
\* comments only
KeyValueFrame ==
    state.tag = "Headed" /\ Len(lines') = Len(lines) + 1
          /\ LineTaken.data.tag = "KeyValue" =>
       /\ state'.tag = "Headed"
       /\ state'.outer_table = state.outer_table
       /\ state'.key = state.key
       /\ state'.comments = state.comments
       /\ pc' = "build" => root' = root

\* in the Headed state a line without data changes the pending comments
\* only
CommentLineFrame ==
    state.tag = "Headed" /\ Len(lines') = Len(lines) + 1
          /\ LineTaken.data.tag = "None" =>
       /\ state' = state
       /\ root' = root
       /\ pc' = pc

\* outer_table changes on a Header line only: the end of the lines leaves
\* the state as it is and resolves it into the table returned
OuterTableFrame ==
    state.tag = "Headed" /\ state'.tag = "Headed"
          /\ state'.outer_table # state.outer_table =>
       Len(lines') = Len(lines) + 1 /\ LineTaken.data.tag = "Header"

\* no step leaves the Headed state
StaysHeaded == state.tag = "Headed" => state'.tag = "Headed"

FrameStep == KeyValueFrame /\ CommentLineFrame /\ OuterTableFrame /\ StaysHeaded

\* C25: in the Headed state a KeyValue line changes only inner_table and
\* the pending comments and a line without data only the pending comments;
\* outer_table, the header's key and kind and the header's comments change
\* only on a Header line, and the state is never Unheaded again.
C25_HeadedFrame == [][FrameStep]_vars

C25_Witness ==
    /\ pc = "build"
    /\ Len(lines) = 4
    /\ IsTableHeader(1)
    /\ IsKeyValue(2)
    /\ lines[3] = Line(None, None)
    /\ IsCommentLine(4)
    /\ state.tag = "Headed"
    /\ Len(state.inner_table) = 1
    /\ state.outer_table = <<>>
    /\ Len(comments) = 1

-----------------------------------------------------------------------------
(* Claims about the comments of the lines and of the tree built.           *)

\* the comments of the Items at and below a value, in the order of the tree
RECURSIVE TreeComments(_)
RECURSIVE TableComments(_, _)
RECURSIVE ArrayComments(_, _)
TableComments(table, i) ==
    IF i > Len(table) THEN <<>>
    ELSE table[i].item.comments \o TreeComments(table[i].item.value)
            \o TableComments(table, i + 1)

ArrayComments(array, i) ==
    IF i > Len(array) THEN <<>>
    ELSE array[i].comments \o TreeComments(array[i].value)
            \o ArrayComments(array, i + 1)

TreeComments(value) ==
    CASE value.shape = "Table" -> TableComments(value.table, 1)
      [] value.shape = "Array" -> ArrayComments(value.array, 1)
      [] OTHER -> <<>>

\* how often a comment occurs in a sequence of comments
Occurrences(cs, c) == Cardinality({i \in 1..Len(cs) : cs[i] = c})

\* how often a comment occurs on the lines
OnLines(c) ==
    Cardinality({i \in 1..Len(lines) : lines[i].meta = Some(c)})

\* the comments a line can carry
LineComments ==
    {line.meta.v : line \in {l \in HeaderLines \cup KeyValueLines \cup OtherLines :
                                l.meta.tag = "Some"}}

\* C26: in a tree built without a panic every comment of every line, those
\* of the lines after the last Header or KeyValue line included, is on
\* exactly one Item: none is lost and none is there twice.
C26_CommentConservation ==
    pc = "built" =>
       \A c \in LineComments :
          Occurrences(TreeComments(Table(root.value)), c) = OnLines(c)

\* every comment of a line is on one Item of the tree or pending
CommentsKeptOrPending ==
    pc = "built" =>
       \A c \in LineComments :
          Occurrences(TreeComments(Table(root.value)), c)
             + Occurrences(comments, c) = OnLines(c)

-----------------------------------------------------------------------------
(* Claims about a header whose key meets an array or a table of the root.  *)

\* the step resolves the Headed state: a Header line is taken or the lines
\* end
Resolves ==
    /\ pc = "build"
    /\ state.tag = "Headed"
    /\ \/ Len(lines') = Len(lines) + 1 /\ LineTaken.data.tag = "Header"
       \/ lines' = lines /\ pc' # "build"

\* the shape of the value a table holds at a key path, "" for none
ShapeAt(table, key) ==
    IF ItemAt(table, key).tag = "Some" THEN ItemAt(table, key).v.value.shape
    ELSE ""

\* outer_table holds an Array at the key of a Table header, or at a key
\* that the key of the header extends
MeetsArray ==
    LET key == state.key.inner
    IN  \E i \in 1..Len(key) :
           /\ ShapeAt(state.outer_table, SubSeq(key, 1, i)) = "Array"
           /\ i < Len(key) \/ state.key.kind = "Table"

\* outer_table holds a Table at the key of an ArrayOfTables header
MeetsTable ==
    /\ state.key.kind = "ArrayOfTables"
    /\ ShapeAt(state.outer_table, state.key.inner) = "Table"

ConflictStep ==
    /\ Resolves /\ MeetsArray =>
          pc' = "panicked" /\ root' = Panic(PanicArray)
    /\ Resolves /\ MeetsTable =>
          pc' = "panicked" /\ root' = Panic(PanicTable)

\* C28: a Table header whose key is or extends the key of an array of the
\* root, and an ArrayOfTables header whose key extends it, panic with the
\* array's message when they are resolved and attach nothing to the array;
\* an ArrayOfTables header whose key holds a Table panics with the table's
\* message.
C28_HeaderConflicts == [][ConflictStep]_vars

C28_Witness ==
    /\ pc = "panicked"
    /\ root = Panic(PanicArray)
    /\ Len(lines) = 3
    /\ IsArrayHeader(1) /\ lines[1].data.key.inner = <<SegB>>
    /\ IsArrayHeader(2) /\ lines[2].data.key.inner = <<SegB>>
    /\ IsArrayHeader(3) /\ lines[3].data.key.inner = <<SegB, SegD>>
    /\ state.tag = "Headed"
    /\ state.key.inner = <<SegB, SegD>>
    /\ ShapeAt(state.outer_table, <<SegB>>) = "Array"

-----------------------------------------------------------------------------
(* Claims about the two groupings of the merge of three tables.            *)

\* merge(merge(A, B), C) panics, in the first merge or in the second
LeftPanics == ab.panic # "" \/ ab_c.panic # ""

\* merge(A, merge(B, C)) panics, in the merge of B and C or in the other
RightPanics == bc.panic # "" \/ a_bc.panic # ""

\* C29: for tables A, B and C, merge(merge(A, B), C) and merge(A,
\* merge(B, C)) both panic, or neither does and the two tables are equal:
\* the same keys in the same order at every level, the same values and the
\* same comments on every Item.
C29_MergeAssociative ==
    pc = "merged" =>
       /\ LeftPanics <=> RightPanics
       /\ ~LeftPanics => ab_c.value = a_bc.value

C29_Witness ==
    /\ pc = "merged"
    /\ ~LeftPanics
    /\ a_val.table # <<>> /\ b_val.table # <<>> /\ c_val.table # <<>>
    /\ \E i \in 1..Len(ab_c.value.table) :
          Len(ab_c.value.table[i].item.comments) = 3
    /\ Len(ab_c.value.table) = 2

C29_WitnessPanics ==
    /\ pc = "merged"
    /\ ab.panic # ""
    /\ bc.panic = ""
    /\ a_bc.panic # ""

-----------------------------------------------------------------------------
(* Claims about len, nth and last of Escape and of EscapeUnicode.          *)

\* one next() of the iterator of either type
PlainNext(it) ==
    IF "index" \in DOMAIN it THEN EscapeUnicodeNext(it) ELSE EscapeNext(it)

\* the items next() yields until it yields None
RECURSIVE Remaining(_)
Remaining(it) ==
    LET r == PlainNext(it)
    IN  IF r[2].tag = "None" THEN <<>> ELSE <<r[2].v>> \o Remaining(r[1])

\* n + 1 calls of next(), stopped at the first None: <<the iterator after
\* them, the item of the last call>>
RECURSIVE PlainNth(_, _)
PlainNth(it, n) ==
    LET r == PlainNext(it)
    IN  IF n = 0 \/ r[2].tag = "None" THEN r ELSE PlainNth(r[1], n - 1)

\* the last item next() yields, None if it yields none
PlainLast(it) ==
    IF Remaining(it) = <<>> THEN None
    ELSE Some(Remaining(it)[Len(Remaining(it))])

IsCall(method) == call.method \in {"Escape::" \o method, "EscapeUnicode::" \o method}

\* C30: on an Escape and on an EscapeUnicode in any state that calls of
\* next() reach, len() is the number of items next() has yet to yield,
\* nth(n) gives what n + 1 calls of next() give and leaves the iterator as
\* they do, and last() is the last item next() yields.
C30_SpecialisedMethods ==
    pc = "iterate" =>
       /\ IsCall("len") => call.result = Len(Remaining(call.before.v))
       /\ IsCall("nth") =>
             /\ call.result = PlainNth(call.before.v, call.n)[2]
             /\ call.after.v = PlainNth(call.before.v, call.n)[1]
       /\ IsCall("last") => call.result = PlainLast(call.before.v)

\* len and nth agree with next()
LenAndNthAgree ==
    pc = "iterate" =>
       /\ IsCall("len") => call.result = Len(Remaining(call.before.v))
       /\ IsCall("nth") =>
             /\ call.result = PlainNth(call.before.v, call.n)[2]
             /\ call.after.v = PlainNth(call.before.v, call.n)[1]

\* last agrees with next() on an Escape that holds no EscapeUnicode
LastAgreesWithoutUnicode ==
    pc = "iterate" /\ call.method = "Escape::last"
          /\ call.before.v.state # "Unicode" =>
       call.result = PlainLast(call.before.v)

-----------------------------------------------------------------------------
(* Claims about the delimiters of a rendered Quoted and Segment.           *)

\* the number of quote characters of one delimiter
DelimiterLen(q) == IF q.mode = "MultiLine" THEN 3 ELSE 1

\* the quote character of the delimiters
DelimiterChar(q) == IF q.quotes = "Single" THEN APOSTROPHE ELSE QUOTATION_MARK

\* the rendering without its two delimiters
Body(q) ==
    SubSeq(QuotedFmt(q), DelimiterLen(q) + 1, Len(QuotedFmt(q)) - DelimiterLen(q))

\* the positions of a body, from the i-th on, whose character is not
\* escaped by a backslash before it: between double quotes a backslash
\* escapes the character behind it, between single quotes nothing does
RECURSIVE UnescapedFrom(_, _, _)
UnescapedFrom(body, quotes, i) ==
    IF i > Len(body) THEN {}
    ELSE IF quotes = "Double" /\ body[i] = BACKSLASH
    THEN {i} \cup UnescapedFrom(body, quotes, i + 2)
    ELSE {i} \cup UnescapedFrom(body, quotes, i + 1)

\* the body holds the closing delimiter: as many consecutive quote
\* characters as the delimiter has, none of them escaped
HoldsDelimiter(q) ==
    LET body == Body(q)
        free == UnescapedFrom(body, q.quotes, 1)
    IN  \E i \in 1..Len(body) :
           \A k \in 0..(DelimiterLen(q) - 1) :
              /\ i + k \in free
              /\ body[i + k] = DelimiterChar(q)

\* the body holds a line feed or a carriage return
HoldsNewline(q) == \E i \in 1..Len(Body(q)) : Body(q)[i] \in {LF, CR}

DelimiterSafe(q) ==
    /\ ~HoldsDelimiter(q)
    /\ q.mode = "SingleLine" => ~HoldsNewline(q)

\* C27: the rendering of Quoted::new(t) and of a quoted Segment::new(t)
\* holds, between its delimiters, no unescaped closing delimiter, one quote
\* character of a single-line form and three in a row of a multi-line
\* form, and a single-line form holds no line feed and no carriage return.
C27_DelimiterSafety ==
    /\ pc \in {"shown", "key", "key_shown"} => DelimiterSafe(quoted)
    /\ pc = "key_shown" =>
          \A i \in 1..Len(dotted) :
             dotted[i].variant = "Quoted" => DelimiterSafe(dotted[i])

\* the rendering of every quoted Segment::new(t) is safe
SegmentDelimiterSafe ==
    pc = "key_shown" =>
       \A i \in 1..Len(dotted) :
          dotted[i].variant = "Quoted" => DelimiterSafe(dotted[i])

\* the rendering of Quoted::new(t) is safe but for a multi-line form
\* between double quotes
QuotedDelimiterSafe ==
    pc \in {"shown", "key", "key_shown"}
          /\ ~(quoted.mode = "MultiLine" /\ quoted.quotes = "Double") =>
       DelimiterSafe(quoted)

-----------------------------------------------------------------------------
(* Claims about the two styles of the inline renderer.                     *)

\* texts joined by ", "
RECURSIVE JoinComma(_)
JoinComma(texts) ==
    IF texts = <<>> THEN <<>>
    ELSE IF Len(texts) = 1 THEN texts[1]
    ELSE texts[1] \o <<COMMA, SPACE>> \o JoinComma(Tail(texts))

\* the compact style: the elements on one line, joined by ", ", without
\* their comments
RECURSIVE Compact(_)
Compact(value) ==
    CASE value.shape = "Primitive" -> Chars(value.primitive)
      [] value.shape = "Array" ->
            <<LEFT_SQUARE_BRACKET>>
            \o JoinComma([i \in 1..Len(value.array) |-> Compact(value.array[i].value)])
            \o <<RIGHT_SQUARE_BRACKET>>
      [] value.shape = "Table" ->
            IF value.table = <<>> THEN <<LEFT_CURLY_BRACKET, RIGHT_CURLY_BRACKET>>
            ELSE <<LEFT_CURLY_BRACKET, SPACE>>
                 \o JoinComma([i \in 1..Len(value.table) |->
                       value.table[i].segment \o <<SPACE, EQUALS_SIGN, SPACE>>
                          \o Compact(value.table[i].item.value)])
                 \o <<SPACE, RIGHT_CURLY_BRACKET>>

\* the lines of a sequence of sequences of lines, one after the other
RECURSIVE Concat(_)
Concat(seqs) == IF seqs = <<>> THEN <<>> ELSE Head(seqs) \o Concat(Tail(seqs))

\* lines with four spaces before each
Indented(ls) == [i \in 1..Len(ls) |-> <<SPACE, SPACE, SPACE, SPACE>> \o ls[i]]

\* the expanded style of a value whose tables are empty, as lines: "[",
\* then for every element, indented, its Pre comments on lines of their
\* own, the element, a comma and its Post comments, then "]"
RECURSIVE ExpandedLines(_)
ExpandedLines(value) ==
    CASE value.shape = "Primitive" -> <<Chars(value.primitive)>>
      [] value.shape = "Table" -> <<<<LEFT_CURLY_BRACKET, RIGHT_CURLY_BRACKET>>>>
      [] value.shape = "Array" ->
            IF value.array = <<>>
            THEN <<<<LEFT_SQUARE_BRACKET, RIGHT_SQUARE_BRACKET>>>>
            ELSE <<<<LEFT_SQUARE_BRACKET>>>>
                 \o Concat([i \in 1..Len(value.array) |->
                       LET item == value.array[i]
                           ls == ExpandedLines(item.value)
                           pres == pre(item.comments)
                       IN  Indented(
                              [k \in 1..Len(pres) |-> <<NUMBER_SIGN>> \o Chars(pres[k])]
                              \o [ls EXCEPT ![Len(ls)] =
                                     @ \o <<COMMA>> \o PostFmt(post(item.comments))])])
                 \o <<<<RIGHT_SQUARE_BRACKET>>>>

\* lines joined by line feeds
RECURSIVE JoinLines(_)
JoinLines(ls) ==
    IF Len(ls) = 1 THEN ls[1] ELSE ls[1] \o <<LF>> \o JoinLines(Tail(ls))

\* no table at or below the value has an entry
RECURSIVE TablesEmpty(_)
TablesEmpty(value) ==
    CASE value.shape = "Primitive" -> TRUE
      [] value.shape = "Table" -> value.table = <<>>
      [] value.shape = "Array" ->
            \A i \in 1..Len(value.array) : TablesEmpty(value.array[i].value)

\* the elements of the arrays and the entries of the tables at and below a
\* value
RECURSIVE Elements(_)
RECURSIVE ElementsFrom(_, _)
ElementsFrom(items, i) ==
    IF i > Len(items) THEN 0
    ELSE 1 + Elements(items[i]) + ElementsFrom(items, i + 1)

Elements(value) ==
    CASE value.shape = "Primitive" -> 0
      [] value.shape = "Table" ->
            ElementsFrom([i \in 1..Len(value.table) |-> value.table[i].item.value], 1)
      [] value.shape = "Array" ->
            ElementsFrom([i \in 1..Len(value.array) |-> value.array[i].value], 1)

\* how often a character occurs in a text
CountOf(str, c) == Cardinality({i \in 1..Len(str) : str[i] = c})

\* the compact style is one line of the elements joined by ", ", without
\* comments
CompactStyle ==
    pc = "inlined" /\ ~alternate => output = Compact(document)

\* the expanded style of arrays
ExpandedArrays ==
    pc = "inlined" /\ alternate /\ TablesEmpty(document) =>
       output = JoinLines(ExpandedLines(document))

\* in the expanded style every element and every entry ends a line of its
\* own with a comma
ExpandedElements ==
    pc = "inlined" /\ alternate =>
       /\ CountOf(output, LF) >= Elements(document)
       /\ CountOf(output, COMMA) >= Elements(document)

\* C24: the compact style writes the elements of an array or table on one
\* line, joined by ", ", without comments; the expanded style writes every
\* element of a non-empty array or table on an indented line of its own,
\* after its Pre comments and with a comma and its Post comments behind
\* it, the last element too, and so in nested arrays and tables; an empty
\* array is [] and an empty table {} in both.
C24_InlineStyles == CompactStyle /\ ExpandedArrays /\ ExpandedElements

=============================================================================
